---- MODULE Spec2Model ----
(***************************************************************************)
(* A model of telethon-events (src/events/events.py): the spam guard, the  *)
(* event builders NewMessage / Command / CallbackQuery / InlineQuery and   *)
(* the actions of the CallbackQuery and InlineQuery events; and            *)
(* pack_bot_file_id (src/events/utils.py).                                 *)
(*                                                                         *)
(* Text and byte strings are sequences of one-character strings.  Time is  *)
(* counted in ticks of 0.2 s.                                              *)
(***************************************************************************)
EXTENDS Integers, Sequences, FiniteSets, TLC

\* ------------------------------------------------------------------------
\* Bounds of the model
\* ------------------------------------------------------------------------
\* coroutines started on one CallbackQuery event
MaxTasks == 4
\* answer() calls made on one InlineQuery event
MaxIqCalls == 2
\* length of the results list given to InlineQuery.Event.answer
MaxResults == 2
\* length of a callback payload
MaxPayloadLen == 3
\* length of the data argument of CallbackQuery
MaxDataLen == 2
\* length of the separator given as split
MaxSepLen == 1
\* occurrence count given in split=(separator, count)
MaxCount == 2
\* length of a command token (the text of the entity after its "/")
MaxTokenLen == 3
\* length of a command name given to Command
MaxCmdLen == 3
\* number of distinct sender / user ids
MaxIds == 3
\* the clock stops after this many ticks
MaxTime == 5
\* inline queries accepted in a row that the history counts
MaxAccepted == 2
\* get_message() calls made on one CallbackQuery event
MaxGmCalls == 3
\* length of the attribute list of a document
MaxAttrs == 3
\* length of the size list of a photo
MaxSizes == 3
\* capacity of the spam cache; the source uses 500, the model a small
\* capacity so that a full cache is reachable
MaxSize == 2

\* ------------------------------------------------------------------------
\* Program constants
\* ------------------------------------------------------------------------
\* time-to-live of a spam cache entry: 0.6 s = 3 ticks of 0.2 s
TTL == 3

Ids == 1..MaxIds
None == "None"

VARIABLES
    now,          \* the monotonic clock, in ticks
    spam_cache,   \* _spam_cache: entries <<id, expiry>> in insertion order
    spamLast,     \* history: the last is_spam call (id, result, time, the
                  \* values of insAt and others before it, whether the
                  \* cache held the id when it returned, whether it or the
                  \* call before it, made for the same id, returned true,
                  \* and whether the cache was full of live entries before
                  \* it)
    insAt,        \* history: per id, the time of the last call that inserted it
    others,       \* history: per id, inserts of other ids since then (capped)
    cbInline,     \* CallbackQuery.Event: query.msg_id is an inline message id
    cbAnswered,   \* CallbackQuery.Event._answered
    cbRequests,   \* SetBotCallbackAnswerRequest requests issued so far
    cbTasks,      \* the coroutines started on the CallbackQuery event
    iqAnswered,   \* InlineQuery.Event._answered
    iqRequests,   \* SetInlineBotResultsRequest requests issued so far
    iqCalls,      \* answer() calls made on the InlineQuery event
    iqPc,         \* where the current answer() call stands
    iqFutures,    \* its futures, in the order of the results argument
    iqSent,       \* the results list of the last request issued
    iqRet,        \* how the last finished answer() call ended
    cq,           \* the CallbackQuery builder (status "none" until constructed)
    cqLast,       \* history: the last CallbackQuery.filter evaluation
    mb,           \* the NewMessage / Command builder ("none" until constructed;
                  \* an error status when the constructor raised)
    mbArgs,       \* history: the arguments the constructor was called with
    mbLast,       \* history: the last filter evaluation of that builder (the
                  \* event, what the spam guard said if asked, what the base
                  \* filter said of the builder as it was, the result)
    gmChannel,    \* CallbackQuery.Event.is_channel ("-" until the event is built)
    gmMessage,    \* CallbackQuery.Event._message
    gmRequests,   \* get_messages requests issued so far
    gmCalls,      \* the get_message() coroutines started on the event
    gmReturned,   \* history: the message the last finished call returned
    ib,           \* the InlineQuery builder ("none" until constructed)
    ibLast,       \* history: the last InlineQuery.filter evaluation
    packLast,     \* history: the last pack_bot_file_id call
    buildLast     \* history: the last NewMessage.build call

spamVars == <<now, spam_cache, spamLast, insAt, others>>
cbVars == <<cbInline, cbAnswered, cbRequests, cbTasks>>
cqVars == <<cq, cqLast>>
mbVars == <<mb, mbArgs, mbLast>>
iqVars == <<iqAnswered, iqRequests, iqCalls, iqPc, iqFutures, iqSent, iqRet>>
gmVars == <<gmChannel, gmMessage, gmRequests, gmCalls, gmReturned>>
ibVars == <<ib, ibLast>>
fnVars == <<packLast, buildLast>>
vars == <<now, spam_cache, spamLast, insAt, others,
          cbInline, cbAnswered, cbRequests, cbTasks,
          iqAnswered, iqRequests, iqCalls, iqPc, iqFutures, iqSent, iqRet,
          cq, cqLast, mb, mbArgs, mbLast,
          gmChannel, gmMessage, gmRequests, gmCalls, gmReturned, ib, ibLast,
          packLast, buildLast>>

\* ------------------------------------------------------------------------
\* cachebox.TTLCache(500, 0.6) as is_spam uses it
\* ------------------------------------------------------------------------
RECURSIVE DropExpired(_, _)
\* entries whose time-to-live has not elapsed at time t
DropExpired(c, t) ==
    IF c = <<>> THEN <<>>
    ELSE IF c[1].exp > t THEN <<c[1]>> \o DropExpired(Tail(c), t)
         ELSE DropExpired(Tail(c), t)

\* _spam_cache.get(id, 0): 1 when a live entry exists, else the default 0
CacheGet_NoExpiry(c, id, t) ==
    IF \E i \in 1..Len(c) : c[i].id = id THEN 1 ELSE 0

CacheGet(c, id, t) ==
    IF \E i \in 1..Len(c) : c[i].id = id /\ c[i].exp > t THEN 1 ELSE 0

RECURSIVE Without(_, _)
Without(c, id) ==
    IF c = <<>> THEN <<>>
    ELSE IF c[1].id = id THEN Without(Tail(c), id)
         ELSE <<c[1]>> \o Without(Tail(c), id)

\* _spam_cache[id] = 1: expired entries go, the oldest entry is evicted when
\* the cache is full, and the new entry expires TTL after the insertion
CacheSet_NoEviction(c, id, t) ==
    Append(Without(DropExpired(c, t), id), [id |-> id, exp |-> t + TTL])

CacheSet(c, id, t) ==
    LET live == Without(DropExpired(c, t), id)
        room == IF Len(live) >= MaxSize THEN Tail(live) ELSE live
    IN  Append(room, [id |-> id, exp |-> t + TTL])

\* is_spam(id): the returned value and the cache it leaves
is_spam_NoInsert(c, id, t) ==
    IF CacheGet(c, id, t) # 0
    THEN [ret |-> TRUE, cache |-> c]
    ELSE [ret |-> FALSE, cache |-> c]

is_spam_RefreshOnHit(c, id, t) ==
    IF CacheGet(c, id, t) # 0
    THEN [ret |-> TRUE,
          cache |-> [i \in 1..Len(c) |->
                        IF c[i].id = id THEN [id |-> id, exp |-> t + TTL]
                        ELSE c[i]]]
    ELSE [ret |-> FALSE, cache |-> CacheSet(c, id, t)]

is_spam(c, id, t) ==
    IF CacheGet(c, id, t) # 0
    THEN [ret |-> TRUE, cache |-> c]
    ELSE [ret |-> FALSE, cache |-> CacheSet(c, id, t)]

\* the effect of one is_spam(id) call on the guard and on its history
SpamStep(id) ==
    LET r == is_spam(spam_cache, id, now)
    IN  /\ spam_cache' = r.cache
        /\ spamLast' = [id |-> id, ret |-> r.ret, at |-> now,
                        insAt |-> insAt[id], others |-> others[id],
                        held |-> CacheGet(r.cache, id, now) = 1,
                        prev |-> r.ret \/ (spamLast.id = id /\ spamLast.ret),
                        full |-> Len(DropExpired(spam_cache, now)) >= MaxSize]
        /\ insAt' = IF r.ret THEN insAt ELSE [insAt EXCEPT ![id] = now]
        /\ others' = IF r.ret THEN others
                     ELSE [j \in Ids |->
                             IF j = id THEN 0
                             ELSE IF others[j] < MaxSize THEN others[j] + 1
                                  ELSE others[j]]

SpamUnchanged == UNCHANGED <<spam_cache, spamLast, insAt, others>>

\* no is_spam call has been made yet
NoSpamCall ==
    [id |-> 0, ret |-> FALSE, at |-> -1, insAt |-> -1, others |-> 0,
     held |-> FALSE, prev |-> FALSE, full |-> FALSE]

SpamInit ==
    /\ now = 0
    /\ spam_cache = <<>>
    /\ spamLast = NoSpamCall
    /\ insAt = [j \in Ids |-> -1]
    /\ others = [j \in Ids |-> 0]

\* a direct call of is_spam
IsSpamCall ==
    \E id \in Ids :
        /\ SpamStep(id)
        /\ UNCHANGED <<now, cbVars, iqVars, cqVars, gmVars, ibVars, mbVars,
                       fnVars>>

\* the clock advances by one tick
Tick ==
    /\ now < MaxTime
    /\ now' = now + 1
    /\ SpamUnchanged
    /\ UNCHANGED <<cbVars, iqVars, cqVars, gmVars, ibVars, mbVars, fnVars>>


\* ------------------------------------------------------------------------
\* CallbackQuery.Event: answer, respond, reply, edit, delete
\* ------------------------------------------------------------------------
\* A coroutine is a record: kind is the method, det says whether it is the
\* detached answer() task made by create_task, pc is where it stands
\* ("scheduled": created and not yet run; "request": awaiting its request;
\* "primary": awaiting get_input_chat and the primary request; "done"),
\* issued says whether it issued its request, res is how it ended.
CbTask(kind, det, pc, issued, res) ==
    [kind |-> kind, det |-> det, pc |-> pc, issued |-> issued, res |-> res]

\* answer() up to its first suspension, from the value of _answered:
\* the new _answered, and whether the request is issued
CbAnswerBody_NoMark(answered) ==
    IF answered THEN [answered |-> TRUE, issue |-> FALSE]
    ELSE [answered |-> FALSE, issue |-> TRUE]

CbAnswerBody(answered) ==
    IF answered THEN [answered |-> TRUE, issue |-> FALSE]
    ELSE [answered |-> TRUE, issue |-> TRUE]

\* the task record of an answer() that has just run its body
CbAnswerRan(det, b) ==
    IF b.issue THEN CbTask("answer", det, "request", TRUE, "-")
    ELSE CbTask("answer", det, "done", FALSE, "None")

CbInit ==
    /\ cbInline \in BOOLEAN
    /\ cbAnswered = FALSE
    /\ cbRequests = 0
    /\ cbTasks = <<>>

\* await event.answer()
CbAnswerCall ==
    /\ Len(cbTasks) < MaxTasks
    /\ LET b == CbAnswerBody(cbAnswered)
       IN  /\ cbAnswered' = b.answered
           /\ cbRequests' = IF b.issue THEN cbRequests + 1 ELSE cbRequests
           /\ cbTasks' = Append(cbTasks, CbAnswerRan(FALSE, b))
    /\ UNCHANGED <<cbInline, spamVars, iqVars, cqVars, gmVars, ibVars, mbVars,
                   fnVars>>

\* the event loop runs a detached answer() task
CbDetachedRun ==
    \E i \in 1..Len(cbTasks) :
        /\ cbTasks[i].pc = "scheduled"
        /\ LET b == CbAnswerBody(cbAnswered)
           IN  /\ cbAnswered' = b.answered
               /\ cbRequests' = IF b.issue THEN cbRequests + 1 ELSE cbRequests
               /\ cbTasks' = [cbTasks EXCEPT ![i] = CbAnswerRan(TRUE, b)]
        /\ UNCHANGED <<cbInline, spamVars, iqVars, cqVars, gmVars, ibVars, mbVars,
                       fnVars>>

\* _answered once the awaited request has returned or raised: answer()
\* does nothing after the await, so the flag stays as it is
CbAfterRequest_ResetOnError(answered, r) ==
    IF r = "error" THEN FALSE ELSE answered

CbAfterRequest(answered, r) == answered

\* the SetBotCallbackAnswerRequest of an answer() returns or raises
CbRequestDone ==
    \E i \in 1..Len(cbTasks), r \in {"ok", "error"} :
        /\ cbTasks[i].pc = "request"
        /\ cbTasks' = [cbTasks EXCEPT ![i].pc = "done", ![i].res = r]
        /\ cbAnswered' = CbAfterRequest(cbAnswered, r)
        /\ UNCHANGED <<cbInline, cbRequests, spamVars, iqVars, cqVars,
                       gmVars, ibVars, mbVars, fnVars>>

\* respond / reply / edit / delete up to the first suspension: create_task
\* of answer(), then the start of the primary action; delete raises
\* TypeError at once for an inline message id
CbPrimaryStart_InlineDeleteSent(kind, inline) ==
    CbTask(kind, FALSE, "primary", FALSE, "-")

CbPrimaryStart(kind, inline) ==
    IF kind = "delete" /\ inline
    THEN CbTask(kind, FALSE, "done", FALSE, "TypeError")
    ELSE CbTask(kind, FALSE, "primary", FALSE, "-")

CbActionCall ==
    \E kind \in {"respond", "reply", "edit", "delete"} :
        /\ Len(cbTasks) + 2 <= MaxTasks
        /\ cbTasks' = cbTasks
                      \o <<CbTask("answer", TRUE, "scheduled", FALSE, "-"),
                           CbPrimaryStart(kind, cbInline)>>
        /\ UNCHANGED <<cbInline, cbAnswered, cbRequests, spamVars, iqVars, cqVars, gmVars, ibVars, mbVars,
                       fnVars>>

\* what the primary action of task i waits for: its own get_input_chat
\* and request, and nothing of the answer() task created before it
CbPrimaryReady_AfterAnswer(tasks, i) ==
    /\ tasks[i].pc = "primary"
    /\ tasks[i - 1].pc = "done"

CbPrimaryReady(tasks, i) == tasks[i].pc = "primary"

\* how a primary action can end: get_input_chat raised ("nochat", only
\* where it is called), or the request was issued and returned or raised
CbPrimaryOutcomes(kind, inline) ==
    IF kind = "edit" /\ inline THEN {"ok", "error"}
    ELSE {"ok", "error", "nochat"}

\* the primary action of task i ends with r
CbPrimaryEnd(i, r) ==
    /\ CbPrimaryReady(cbTasks, i)
    /\ r \in CbPrimaryOutcomes(cbTasks[i].kind, cbInline)
    /\ cbTasks' = [cbTasks EXCEPT ![i].pc = "done", ![i].res = r,
                                  ![i].issued = (r # "nochat")]
    /\ UNCHANGED <<cbInline, cbAnswered, cbRequests, spamVars, iqVars,
                   cqVars, gmVars, ibVars, mbVars, fnVars>>

CbPrimaryDone ==
    \E i \in 1..Len(cbTasks), r \in {"ok", "error", "nochat"} :
        CbPrimaryEnd(i, r)

NextCb ==
    \/ CbAnswerCall
    \/ CbDetachedRun
    \/ CbRequestDone
    \/ CbActionCall
    \/ CbPrimaryDone


\* ------------------------------------------------------------------------
\* CallbackQuery.Event.get_message
\* ------------------------------------------------------------------------
\* what get_messages can return: the message as it is at the time of the
\* request (it may have been edited between two requests)
Messages == {"m1", "m2"}

\* how an awaited get_messages ends: with a message, with None (no such
\* message), with ValueError, or with another exception (an RPC or
\* connection error)
FetchOutcomes == Messages \cup {"notfound", "ValueError", "error"}

\* how an awaited get_input_chat ends
ChatOutcomes == {"ok", "ValueError", "error"}

\* a get_message() coroutine: pc is where it stands ("chat": awaiting
\* get_input_chat, "fetch": awaiting get_messages, "done"), out is how its
\* last await ended ("cached" when it returned _message at once), ret is
\* what it returned ("raise" when it raised), req says whether it issued a
\* get_messages request; history: seen is _message when it started, prior
\* the message the last call finished before it had returned, inflight the
\* number of calls in flight when it started, before and after are
\* _message around its last step
GmCallRec(pc, out, ret, req, seen, prior, inflight, before, after) ==
    [pc |-> pc, out |-> out, ret |-> ret, req |-> req, seen |-> seen,
     prior |-> prior, inflight |-> inflight, before |-> before,
     after |-> after]

\* get_message() up to its first suspension: the cached message is
\* returned at once, else get_input_chat is awaited for a channel and
\* get_messages otherwise
GmStart(message, channel) ==
    IF message # None THEN [pc |-> "done", out |-> "cached", ret |-> message,
                            req |-> FALSE]
    ELSE IF channel THEN [pc |-> "chat", out |-> "-", ret |-> "-",
                          req |-> FALSE]
    ELSE [pc |-> "fetch", out |-> "-", ret |-> "-", req |-> TRUE]

\* the end of the try block: the result of get_messages is stored and
\* returned, ValueError is caught and None returned, anything else
\* propagates
GmFinish_NotStored(out, message) ==
    IF out \in Messages THEN [ret |-> out, message |-> message]
    ELSE IF out = "notfound" THEN [ret |-> None, message |-> None]
    ELSE IF out = "ValueError" THEN [ret |-> None, message |-> message]
    ELSE [ret |-> "raise", message |-> message]

GmFinish(out, message) ==
    IF out \in Messages THEN [ret |-> out, message |-> out]
    ELSE IF out = "notfound" THEN [ret |-> None, message |-> None]
    ELSE IF out = "ValueError" THEN [ret |-> None, message |-> message]
    ELSE [ret |-> "raise", message |-> message]

GmInit ==
    /\ gmChannel = "-"
    /\ gmMessage = None
    /\ gmRequests = 0
    /\ gmCalls = <<>>
    /\ gmReturned = None

GmInFlight == Cardinality({i \in 1..Len(gmCalls) : gmCalls[i].pc # "done"})

\* CallbackQuery.build makes the event of a button click, in a channel or
\* in another chat
GmBuild ==
    \E peer \in {"channel", "other"} :
        /\ gmChannel = "-"
        /\ gmChannel' = peer
        /\ UNCHANGED <<gmMessage, gmRequests, gmCalls, gmReturned, spamVars,
                       cbVars, iqVars, cqVars, mbVars, ibVars, fnVars>>

\* event.get_message() is called
GmCallStart ==
    /\ gmChannel # "-"
    /\ Len(gmCalls) < MaxGmCalls
    /\ LET s == GmStart(gmMessage, gmChannel = "channel")
       IN  /\ gmCalls' = Append(gmCalls,
                                GmCallRec(s.pc, s.out, s.ret, s.req, gmMessage,
                                          gmReturned, GmInFlight, gmMessage,
                                          gmMessage))
           /\ gmRequests' = IF s.req THEN gmRequests + 1 ELSE gmRequests
           /\ gmReturned' = IF s.pc = "done" THEN s.ret ELSE gmReturned
    /\ UNCHANGED <<gmChannel, gmMessage, spamVars, cbVars, iqVars, cqVars,
                   mbVars, ibVars, fnVars>>

\* the get_input_chat of a call returns (get_messages is then called) or
\* raises
GmChatDone ==
    \E i \in 1..Len(gmCalls), o \in ChatOutcomes :
        /\ gmCalls[i].pc = "chat"
        /\ IF o = "ok"
           THEN /\ gmCalls' = [gmCalls EXCEPT ![i].pc = "fetch",
                                              ![i].req = TRUE]
                /\ gmRequests' = gmRequests + 1
                /\ UNCHANGED <<gmMessage, gmReturned>>
           ELSE LET f == GmFinish(o, gmMessage)
                IN  /\ gmCalls' = [gmCalls EXCEPT ![i].pc = "done",
                                       ![i].out = o, ![i].ret = f.ret,
                                       ![i].before = gmMessage,
                                       ![i].after = f.message]
                    /\ gmMessage' = f.message
                    /\ UNCHANGED <<gmRequests, gmReturned>>
        /\ UNCHANGED <<gmChannel, spamVars, cbVars, iqVars, cqVars, mbVars,
                       ibVars, fnVars>>

\* the get_messages request of a call returns or raises
GmFetchDone ==
    \E i \in 1..Len(gmCalls), o \in FetchOutcomes :
        /\ gmCalls[i].pc = "fetch"
        /\ LET f == GmFinish(o, gmMessage)
           IN  /\ gmCalls' = [gmCalls EXCEPT ![i].pc = "done", ![i].out = o,
                                  ![i].ret = f.ret, ![i].before = gmMessage,
                                  ![i].after = f.message]
               /\ gmMessage' = f.message
               /\ gmReturned' = IF f.ret \in Messages THEN f.ret
                                ELSE gmReturned
        /\ UNCHANGED <<gmChannel, gmRequests, spamVars, cbVars, iqVars,
                       cqVars, mbVars, ibVars, fnVars>>

NextGm ==
    \/ GmBuild
    \/ GmCallStart
    \/ GmChatDone
    \/ GmFetchDone


\* ------------------------------------------------------------------------
\* InlineQuery.Event.answer
\* ------------------------------------------------------------------------
\* the values a result entry can be or resolve to
ResultVals == {"r1", "r2"}

\* a result entry: a plain value, or (aw) an awaitable resolving to v
ResultEntries == [aw : BOOLEAN, v : ResultVals]

\* the lists answer() is called with; the empty list also stands for
\* results=None, which the code treats alike
ResultLists == UNION {[1..n -> ResultEntries] : n \in 0..MaxResults}

\* _as_future(obj): a future already holding obj, or the pending future
\* of an awaitable; history: at is the rank at which a pending future
\* completed (0 for a future that was never pending)
AsFuture(e) ==
    [st |-> IF e.aw THEN "pending" ELSE "done", v |-> e.v, at |-> 0]

\* the number of futures that completed after having been pending
IqCompleted(futures) ==
    Cardinality({i \in 1..Len(futures) : futures[i].at > 0})

\* [x.result() for x in futures]: the results in the order of the list
IqResults_CompletionOrder(futures) ==
    LET Before(j, i) ==
            \/ futures[j].at < futures[i].at
            \/ futures[j].at = futures[i].at /\ j < i
        Pos(i) == 1 + Cardinality({j \in 1..Len(futures) : Before(j, i)})
    IN  [p \in 1..Len(futures) |->
            futures[CHOOSE i \in 1..Len(futures) : Pos(i) = p].v]

IqResults(futures) == [i \in 1..Len(futures) |-> futures[i].v]

IqInit ==
    /\ iqAnswered = FALSE
    /\ iqRequests = 0
    /\ iqCalls = 0
    /\ iqPc = "idle"
    /\ iqFutures = <<>>
    /\ iqSent = <<>>
    /\ iqRet = "-"

\* await event.answer(results), up to its first suspension; the calls on
\* one event are made one after the other
IqAnswerCall ==
    \E rs \in ResultLists :
        /\ iqPc \in {"idle", "done"}
        /\ iqCalls < MaxIqCalls
        /\ iqCalls' = iqCalls + 1
        /\ IF iqAnswered
           THEN /\ iqPc' = "done"
                /\ iqRet' = "None"
                /\ UNCHANGED <<iqRequests, iqFutures, iqSent>>
           ELSE IF rs # <<>>
           THEN /\ iqPc' = "waiting"
                /\ iqFutures' = [i \in 1..Len(rs) |-> AsFuture(rs[i])]
                /\ iqRet' = "-"
                /\ UNCHANGED <<iqRequests, iqSent>>
           ELSE /\ iqPc' = "request"
                /\ iqFutures' = <<>>
                /\ iqRequests' = iqRequests + 1
                /\ iqSent' = <<>>
                /\ iqRet' = "-"
        /\ UNCHANGED <<iqAnswered, spamVars, cbVars, cqVars, gmVars, ibVars, mbVars,
                       fnVars>>

\* a pending entry completes, with its value or with an exception
IqFutureDone ==
    \E i \in 1..Len(iqFutures), st \in {"done", "failed"} :
        /\ iqPc = "waiting"
        /\ iqFutures[i].st = "pending"
        /\ iqFutures' = [iqFutures EXCEPT ![i].st = st,
                                          ![i].at = IqCompleted(iqFutures) + 1]
        /\ UNCHANGED <<iqAnswered, iqRequests, iqCalls, iqPc, iqSent, iqRet,
                       spamVars, cbVars, cqVars, gmVars, ibVars, mbVars,
                       fnVars>>

\* asyncio.wait returns once every future has completed; result() of a
\* failed future raises, otherwise the request is issued with the results
\* in the order of the futures list
IqWaitDone ==
    /\ iqPc = "waiting"
    /\ \A i \in 1..Len(iqFutures) : iqFutures[i].st # "pending"
    /\ IF \E i \in 1..Len(iqFutures) : iqFutures[i].st = "failed"
       THEN /\ iqPc' = "done"
            /\ iqRet' = "raise"
            /\ UNCHANGED <<iqRequests, iqSent>>
       ELSE /\ iqPc' = "request"
            /\ iqRequests' = iqRequests + 1
            /\ iqSent' = IqResults(iqFutures)
            /\ UNCHANGED iqRet
    /\ UNCHANGED <<iqAnswered, iqCalls, iqFutures, spamVars, cbVars,
                   cqVars, gmVars, ibVars, mbVars, fnVars>>

\* the SetInlineBotResultsRequest returns or raises
IqRequestDone ==
    \E r \in {"ok", "error"} :
        /\ iqPc = "request"
        /\ iqPc' = "done"
        /\ iqRet' = r
        /\ UNCHANGED <<iqAnswered, iqRequests, iqCalls, iqFutures, iqSent,
                       spamVars, cbVars, cqVars, gmVars, ibVars, mbVars,
                       fnVars>>

NextIq ==
    \/ IqAnswerCall
    \/ IqFutureDone
    \/ IqWaitDone
    \/ IqRequestDone


\* ------------------------------------------------------------------------
\* Values: None, bytes and str
\* ------------------------------------------------------------------------
\* the bytes of payloads, data and separators: a letter and a space
Bytes == {"m", " "}
\* the bytes that bytes.split(None) treats as whitespace
Whitespace == {" "}
\* the characters of str arguments; "e'" is a non-ASCII character
StrChars == Bytes \cup {"e'"}

SeqsUpTo(S, n) == UNION {[1..k -> S] : k \in 0..n}

NoneVal == [t |-> "NoneType", v |-> <<>>]
\* the int 5, a value that is neither None, bytes nor str
IntVal == [t |-> "int", v |-> <<"5">>]
BytesVal(v) == [t |-> "bytes", v |-> v]
StrVal(v) == [t |-> "str", v |-> v]

\* bool(x) of None, bytes or str
Truthy(x) == x.t # "NoneType" /\ x.v # <<>>

RECURSIVE Encode(_)
\* str.encode("utf-8"): one byte per ASCII character, two for "e'"
Encode(s) ==
    IF s = <<>> THEN <<>>
    ELSE (IF s[1] = "e'" THEN <<"xC3", "xA9">> ELSE <<s[1]>>) \o Encode(Tail(s))

\* isinstance(x, str): x.encode("utf-8"), anything else is kept
EncodeIfStr(x) == IF x.t = "str" THEN BytesVal(Encode(x.v)) ELSE x

\* ------------------------------------------------------------------------
\* bytes.count and bytes.split
\* ------------------------------------------------------------------------
RECURSIVE FindFrom(_, _, _)
\* the first index >= i at which sep occurs in p, 0 when there is none
FindFrom(p, sep, i) ==
    IF i + Len(sep) - 1 > Len(p) THEN 0
    ELSE IF SubSeq(p, i, i + Len(sep) - 1) = sep THEN i
         ELSE FindFrom(p, sep, i + 1)

RECURSIVE CountFrom(_, _, _)
CountFrom(p, sep, i) ==
    LET f == FindFrom(p, sep, i)
    IN  IF f = 0 THEN 0 ELSE 1 + CountFrom(p, sep, f + Len(sep))

\* p.count(sep): the non-overlapping occurrences; TypeError for None; an
\* int counts the bytes of that value, of which the payloads have none
BytesCount(p, sep) ==
    IF sep.t = "NoneType" THEN [err |-> "TypeError", n |-> 0]
    ELSE IF sep.t = "int" THEN [err |-> "", n |-> 0]
    ELSE IF sep.v = <<>> THEN [err |-> "", n |-> Len(p) + 1]
    ELSE [err |-> "", n |-> CountFrom(p, sep.v, 1)]

RECURSIVE SkipWs(_, _)
\* the first index >= i of a non-whitespace byte, Len(p) + 1 when none
SkipWs(p, i) ==
    IF i > Len(p) THEN i
    ELSE IF p[i] \in Whitespace THEN SkipWs(p, i + 1) ELSE i

RECURSIVE WordEnd(_, _)
\* the last index of the run of non-whitespace bytes that starts at i
WordEnd(p, i) ==
    IF i + 1 > Len(p) THEN i
    ELSE IF p[i + 1] \in Whitespace THEN i ELSE WordEnd(p, i + 1)

\* p.split(sep, 2)[0]: with sep None the first whitespace-delimited word
\* (IndexError when there is none), with an empty sep ValueError, with a
\* sep that is no bytes TypeError, else the part of p before the first
\* occurrence of sep
SplitFirst_AtLast(p, sep) ==
    IF sep.t = "NoneType" \/ sep.v = <<>> THEN [err |-> "", v |-> p]
    ELSE LET occ == {i \in 1..Len(p) : FindFrom(p, sep.v, i) = i}
         IN  [err |-> "",
              v |-> IF occ = {} THEN p
                    ELSE SubSeq(p, 1, (CHOOSE i \in occ : \A j \in occ : j <= i) - 1)]

SplitFirst(p, sep) ==
    IF sep.t = "int" THEN [err |-> "TypeError", v |-> <<>>]
    ELSE IF sep.t = "NoneType"
    THEN LET s == SkipWs(p, 1)
         IN  IF s > Len(p) THEN [err |-> "IndexError", v |-> <<>>]
             ELSE [err |-> "", v |-> SubSeq(p, s, WordEnd(p, s))]
    ELSE IF sep.v = <<>> THEN [err |-> "ValueError", v |-> <<>>]
    ELSE LET f == FindFrom(p, sep.v, 1)
         IN  [err |-> "", v |-> IF f = 0 THEN p ELSE SubSeq(p, 1, f - 1)]

\* ------------------------------------------------------------------------
\* EventBuilder
\* ------------------------------------------------------------------------
\* the user predicates: none, or one that returns a constant
Funcs == {"None", "true", "false"}

\* EventBuilder.filter: None until resolved, then func(event), else True
BaseFilter_NoResolvedCheck(resolved, func) ==
    IF func # "None" THEN (IF func = "true" THEN "accept" ELSE "reject")
    ELSE "accept"

BaseFilter(resolved, func) ==
    IF ~resolved THEN "reject"
    ELSE IF func # "None" THEN (IF func = "true" THEN "accept" ELSE "reject")
    ELSE "accept"

\* whether a filter evaluation reaches its is_spam call: the call stands
\* after the builder's own checks (own is what they said) and before the
\* base filter
GuardReached_BaseFirst(own, b) ==
    own = "pass" /\ BaseFilter(b.resolved, b.func) = "accept"

GuardReached(own, b) == own = "pass"

\* ------------------------------------------------------------------------
\* CallbackQuery
\* ------------------------------------------------------------------------
\* split_char_count when split is not a tuple
NoCount == -1

\* the data argument
CqDataArgs ==
    {NoneVal} \cup {BytesVal(v) : v \in SeqsUpTo(Bytes, MaxDataLen)}
              \cup {StrVal(v) : v \in SeqsUpTo({"m", "e'"}, 1)}

\* the split argument: a separator (or None), or a (separator, count) tuple
CqSeps ==
    {BytesVal(v) : v \in SeqsUpTo(Bytes, MaxSepLen)} \cup {StrVal(<<" ">>)}
CqSplitArgs ==
    {[tuple |-> FALSE, sep |-> x, n |-> NoCount] : x \in {NoneVal} \cup CqSeps}
    \cup {[tuple |-> TRUE, sep |-> x, n |-> k] :
             x \in {y \in CqSeps : y.v # <<>>}, k \in 0..MaxCount}

\* CallbackQuery.__init__
CallbackQueryInit(data, split, func) ==
    [status |-> "ok", resolved |-> FALSE, func |-> func,
     data |-> EncodeIfStr(data),
     split_char |-> EncodeIfStr(split.sep),
     split_char_count |-> IF split.tuple THEN split.n ELSE NoCount]

NoCq ==
    [status |-> "none", resolved |-> FALSE, func |-> "None", data |-> NoneVal,
     split_char |-> NoneVal, split_char_count |-> NoCount]

\* the data part of CallbackQuery.filter: "pass", "reject", or the error
\* raised
CqDataCheck(b, payload) ==
    IF ~Truthy(b.data) THEN "pass"
    ELSE IF ~Truthy(b.split_char) /\ b.data # BytesVal(payload) THEN "reject"
    ELSE LET cnt == BytesCount(payload, b.split_char)
             useCount == b.split_char_count # NoCount /\ b.split_char_count # 0
             first == SplitFirst(payload, b.split_char)
         IN  IF useCount /\ cnt.err # "" THEN cnt.err
             ELSE IF useCount /\ cnt.n # b.split_char_count THEN "reject"
             ELSE IF first.err # "" THEN first.err
             ELSE IF b.data # BytesVal(first.v) THEN "reject"
             ELSE "pass"

\* CallbackQuery.filter: the data check, the spam guard, the base filter
CallbackQueryFilter(b, payload, user, c, t) ==
    LET chk == CqDataCheck(b, payload)
    IN  IF chk # "pass" THEN chk
        ELSE IF is_spam(c, user, t).ret THEN "reject"
        ELSE BaseFilter(b.resolved, b.func)

NoCqLast ==
    [valid |-> FALSE, payload |-> <<>>, user |-> 0, check |-> "-", res |-> "-"]

CqInit ==
    /\ cq = NoCq
    /\ cqLast = NoCqLast

\* the predicates, payloads and users of the CallbackQuery specification
CqFuncs == {"None", "false"}
CqPayloads == SeqsUpTo(Bytes, MaxPayloadLen)
CqUsers == {1}

\* builder = CallbackQuery(data, split, func)
CqConstruct(DataArgs, SplitArgs, FuncArgs) ==
    \E data \in DataArgs, split \in SplitArgs, func \in FuncArgs :
        /\ cq.status = "none"
        /\ cq' = CallbackQueryInit(data, split, func)
        /\ UNCHANGED <<cqLast, spamVars, cbVars, iqVars, mbVars, gmVars, ibVars,
                       fnVars>>

\* await builder.resolve(client)
CqResolve ==
    /\ cq.status = "ok"
    /\ cq' = [cq EXCEPT !.resolved = TRUE]
    /\ UNCHANGED <<cqLast, spamVars, cbVars, iqVars, mbVars, gmVars, ibVars,
                   fnVars>>

\* builder.filter(event) for a callback with the given payload and user
CqFilter(Payloads, Users) ==
    \E payload \in Payloads, user \in Users :
        /\ cq.status = "ok"
        /\ LET chk == CqDataCheck(cq, payload)
           IN  /\ cqLast' = [valid |-> TRUE, payload |-> payload, user |-> user,
                             check |-> chk,
                             res |-> CallbackQueryFilter(cq, payload, user,
                                                         spam_cache, now)]
               /\ IF GuardReached(chk, cq) THEN SpamStep(user)
                  ELSE SpamUnchanged
        /\ UNCHANGED <<now, cq, cbVars, iqVars, mbVars, gmVars, ibVars,
                       fnVars>>

NextCq ==
    \/ CqConstruct(CqDataArgs, CqSplitArgs, {"None"})
    \/ CqResolve
    \/ CqFilter(CqPayloads, CqUsers)


\* ------------------------------------------------------------------------
\* NewMessage and Command: construction
\* ------------------------------------------------------------------------
\* an optional bool argument: None, True or False
TriBool == {"None", "True", "False"}
IsTrue(x) == x = "True"
NotOf(x) == IF x = "True" THEN "False" ELSE "True"

\* the command argument: a str, a list of str, or a value of another type
CmdStr(v) == [t |-> "str", s |-> v, l |-> <<>>]
CmdList(l) == [t |-> "list", s |-> <<>>, l |-> l]
CmdOther == [t |-> "int", s |-> <<>>, l |-> <<>>]

RECURSIVE ReplaceFirstSlash(_)
\* name.replace("/", "", 1): the first "/" of the name, wherever it is, goes
ReplaceFirstSlash(name) ==
    IF name = <<>> THEN <<>>
    ELSE IF name[1] = "/" THEN Tail(name)
         ELSE <<name[1]>> \o ReplaceFirstSlash(Tail(name))

\* self.command of Command.__init__
CommandNames(command) ==
    IF command.t = "str" THEN <<ReplaceFirstSlash(command.s)>>
    ELSE [i \in 1..Len(command.l) |-> ReplaceFirstSlash(command.l[i])]

\* the builder record; command is <<>> and pattern None where unused
MbRec(status, kind, func, pattern, incoming, outgoing, private, public) ==
    [status |-> status, kind |-> kind, resolved |-> FALSE, func |-> func,
     pattern |-> pattern, incoming |-> incoming, outgoing |-> outgoing,
     private |-> private, public |-> public, command |-> <<>>]

\* the constructor raised: no builder exists
MbFailed(kind, err) ==
    MbRec(err, kind, "None", NoneVal, "None", "None", FALSE, FALSE)

NoMb == MbFailed("-", "none")

\* the incoming / outgoing normalisation of NewMessage.__init__
NormDirection_NeitherAllowed(incoming, outgoing) ==
    IF IsTrue(incoming) /\ IsTrue(outgoing)
    THEN [err |-> "", incoming |-> "None", outgoing |-> "None"]
    ELSE IF incoming # "None" /\ outgoing = "None"
    THEN [err |-> "", incoming |-> incoming, outgoing |-> NotOf(incoming)]
    ELSE IF outgoing # "None" /\ incoming = "None"
    THEN [err |-> "", incoming |-> NotOf(outgoing), outgoing |-> outgoing]
    ELSE [err |-> "", incoming |-> incoming, outgoing |-> outgoing]

NormDirection(incoming, outgoing) ==
    IF IsTrue(incoming) /\ IsTrue(outgoing)
    THEN [err |-> "", incoming |-> "None", outgoing |-> "None"]
    ELSE IF incoming # "None" /\ outgoing = "None"
    THEN [err |-> "", incoming |-> incoming, outgoing |-> NotOf(incoming)]
    ELSE IF outgoing # "None" /\ incoming = "None"
    THEN [err |-> "", incoming |-> NotOf(outgoing), outgoing |-> outgoing]
    ELSE IF incoming = "False" /\ outgoing = "False"
    THEN [err |-> "ValueError", incoming |-> incoming, outgoing |-> outgoing]
    ELSE [err |-> "", incoming |-> incoming, outgoing |-> outgoing]

\* NewMessage.__init__
NewMessageInit_NoVisibilityCheck(pattern, outgoing, incoming, func, private, public) ==
    LET dir == NormDirection(incoming, outgoing)
    IN  IF dir.err # "" THEN MbFailed("NewMessage", dir.err)
        ELSE IF pattern.t \notin {"str", "Pattern", "NoneType"}
        THEN MbFailed("NewMessage", "TypeError")
        ELSE MbRec("ok", "NewMessage", func,
                   IF pattern.t = "str" THEN [t |-> "Pattern", v |-> pattern.v]
                   ELSE pattern,
                   dir.incoming, dir.outgoing, private, public)

NewMessageInit(pattern, outgoing, incoming, func, private, public) ==
    IF private /\ public THEN MbFailed("NewMessage", "ValueError")
    ELSE LET dir == NormDirection(incoming, outgoing)
         IN  IF dir.err # "" THEN MbFailed("NewMessage", dir.err)
             ELSE IF pattern.t \notin {"str", "Pattern", "NoneType"}
             THEN MbFailed("NewMessage", "TypeError")
             ELSE MbRec("ok", "NewMessage", func,
                        IF pattern.t = "str"
                        THEN [t |-> "Pattern", v |-> pattern.v]
                        ELSE pattern,
                        dir.incoming, dir.outgoing, private, public)

\* Command.__init__
CommandInit(command, outgoing, incoming, func, private, public) ==
    IF command.t \notin {"str", "list"} THEN MbFailed("Command", "TypeError")
    ELSE LET nm == NewMessageInit(NoneVal, outgoing, incoming, func,
                                  private, public)
         IN  IF nm.status # "ok" THEN [nm EXCEPT !.kind = "Command"]
             ELSE [nm EXCEPT !.kind = "Command",
                             !.command = CommandNames(command)]

\* the arguments of a constructor call
MbArgsRec(kind, command, pattern, flags) ==
    [kind |-> kind, command |-> command, pattern |-> pattern,
     incoming |-> flags.incoming, outgoing |-> flags.outgoing,
     private |-> flags.private, public |-> flags.public]

MbFlags(incoming, outgoing, private, public) ==
    [incoming |-> incoming, outgoing |-> outgoing,
     private |-> private, public |-> public]

NoMbArgs ==
    MbArgsRec("none", CmdOther, NoneVal, MbFlags("None", "None", FALSE, FALSE))

\* ------------------------------------------------------------------------
\* Command.filter
\* ------------------------------------------------------------------------
\* client.me.username of a bot without a username
NoUsername == <<"None">>

\* message.entities: missing (None), empty, or a list whose first entity
\* has the given kind, offset and length
NoEntities(kind) == [kind |-> kind, offset |-> 0, length |-> 0]
Entity(kind, offset, length) ==
    [kind |-> kind, offset |-> offset, length |-> length]

\* a NewMessage event: the message's text, first entity, direction, chat
\* kind and sender, and the username of the bot
MsgEvent(text, ent, out, chat, sender, me) ==
    [text |-> text, ent |-> ent, out |-> out, chat |-> chat,
     sender |-> sender, me |-> me]

Min(a, b) == IF a < b THEN a ELSE b

\* text[i:j] of Python, for 0 <= i
Slice(text, i, j) == SubSeq(text, i + 1, Min(j, Len(text)))

RECURSIVE SplitOn(_, _)
\* s.split(ch): the segments of s between the occurrences of ch
SplitOn(s, ch) ==
    LET at == {i \in 1..Len(s) : s[i] = ch}
    IN  IF at = {} THEN <<s>>
        ELSE LET f == CHOOSE i \in at : \A j \in at : i <= j
             IN  <<SubSeq(s, 1, f - 1)>> \o SplitOn(SubSeq(s, f + 1, Len(s)), ch)

\* the segments of the command token: the name, then what follows each "@"
EntityCommand(ev) ==
    SplitOn(Slice(ev.text, ev.ent.offset + 1, ev.ent.offset + ev.ent.length),
            "@")

\* the visibility and direction checks shared by NewMessage and Command
VisibilityPasses(b, ev) ==
    /\ ~(b.private /\ ev.chat # "private")
    /\ ~(b.public /\ ev.chat \notin {"group", "channel"})
    /\ ~(IsTrue(b.incoming) /\ ev.out)
    /\ ~(IsTrue(b.outgoing) /\ ~ev.out)

\* the first entity is a bot command at offset 0
EntityPasses_AnyOffset(ev) ==
    /\ ev.ent.kind \notin {"missing", "empty"}
    /\ ev.ent.kind = "botcmd"

EntityPasses(ev) ==
    /\ ev.ent.kind \notin {"missing", "empty"}
    /\ ev.ent.kind = "botcmd"
    /\ ev.ent.offset = 0

\* the "@username" test of Command.filter on the segments after the name
UsernamePasses_Ignored(rest, me) == TRUE

UsernamePasses(rest, me) == ~(rest # <<>> /\ rest[1] # me)

\* Command.filter up to the spam guard: "pass" or "reject"
CommandPre(b, ev) ==
    IF ~VisibilityPasses(b, ev) THEN "reject"
    ELSE IF ~EntityPasses(ev) THEN "reject"
    ELSE LET parts == EntityCommand(ev)
         IN  IF ~(\E i \in 1..Len(b.command) : b.command[i] = Head(parts))
             THEN "reject"
             ELSE IF ~UsernamePasses(Tail(parts), ev.me) THEN "reject"
             ELSE "pass"

\* Command.filter
CommandFilter(b, ev, c, t) ==
    IF CommandPre(b, ev) # "pass" THEN "reject"
    ELSE IF is_spam(c, ev.sender, t).ret THEN "reject"
    ELSE BaseFilter(b.resolved, b.func)

NoMbLast ==
    [valid |-> FALSE,
     ev |-> MsgEvent(<<>>, NoEntities("missing"), FALSE, "private", 0,
                     NoUsername),
     spam |-> "-", base |-> "-", res |-> "-"]

MbInit ==
    /\ mb = NoMb
    /\ mbArgs = NoMbArgs
    /\ mbLast = NoMbLast

\* builder = NewMessage(pattern, outgoing, incoming, func, private, public)
NewMessageConstruct(Patterns, FlagArgs, FuncArgs) ==
    \E pattern \in Patterns, f \in FlagArgs, func \in FuncArgs :
        /\ mb.status = "none"
        /\ mb' = NewMessageInit(pattern, f.outgoing, f.incoming, func,
                                f.private, f.public)
        /\ mbArgs' = MbArgsRec("NewMessage", CmdOther, pattern, f)
        /\ UNCHANGED <<mbLast, spamVars, cbVars, iqVars, cqVars, gmVars, ibVars,
                       fnVars>>

\* builder = Command(command, outgoing, incoming, func, private, public)
CommandConstruct(Commands, FlagArgs, FuncArgs) ==
    \E command \in Commands, f \in FlagArgs, func \in FuncArgs :
        /\ mb.status = "none"
        /\ mb' = CommandInit(command, f.outgoing, f.incoming, func,
                             f.private, f.public)
        /\ mbArgs' = MbArgsRec("Command", command, NoneVal, f)
        /\ UNCHANGED <<mbLast, spamVars, cbVars, iqVars, cqVars, gmVars, ibVars,
                       fnVars>>

\* await builder.resolve(client)
MbResolve ==
    /\ mb.status = "ok"
    /\ mb' = [mb EXCEPT !.resolved = TRUE]
    /\ UNCHANGED <<mbArgs, mbLast, spamVars, cbVars, iqVars, cqVars, gmVars, ibVars,
                   fnVars>>

\* builder.filter(event) of a Command builder
CommandFilterStep(Events) ==
    \E ev \in Events :
        /\ mb.status = "ok"
        /\ mb.kind = "Command"
        /\ LET pre == CommandPre(mb, ev)
           IN  /\ mbLast' = [valid |-> TRUE, ev |-> ev,
                             spam |-> IF pre # "pass" THEN "-"
                                      ELSE IF is_spam(spam_cache, ev.sender,
                                                      now).ret
                                           THEN "spam" ELSE "fresh",
                             base |-> BaseFilter(mb.resolved, mb.func),
                             res |-> CommandFilter(mb, ev, spam_cache, now)]
               /\ IF GuardReached(pre, mb) THEN SpamStep(ev.sender)
                  ELSE SpamUnchanged
        /\ UNCHANGED <<now, mb, mbArgs, cbVars, iqVars, cqVars, gmVars, ibVars,
                       fnVars>>

\* ------------------------------------------------------------------------
\* NewMessage.filter
\* ------------------------------------------------------------------------
\* message.message or query.query being None
NoText == <<"None">>

\* text or ""
OrEmpty(text) == IF text = NoText THEN <<>> ELSE text

\* bool(self.pattern): a compiled pattern is an object and so always true
PatternSet(pattern) == pattern.t # "NoneType"

\* self.pattern.match(text) for a pattern without metacharacters: the text
\* starts with the pattern
PatternMatch(pattern, text) ==
    /\ Len(pattern.v) <= Len(text)
    /\ SubSeq(text, 1, Len(pattern.v)) = pattern.v

\* the pattern check of NewMessage.filter and InlineQuery.filter
PatternPasses(pattern, text) ==
    ~PatternSet(pattern) \/ PatternMatch(pattern, OrEmpty(text))

\* NewMessage.filter up to the spam guard: "pass" or "reject"
NewMessagePre(b, ev) ==
    IF ~VisibilityPasses(b, ev) THEN "reject"
    ELSE IF ~PatternPasses(b.pattern, ev.text) THEN "reject"
    ELSE "pass"

\* NewMessage.filter
NewMessageFilter(b, ev, c, t) ==
    IF NewMessagePre(b, ev) # "pass" THEN "reject"
    ELSE IF is_spam(c, ev.sender, t).ret THEN "reject"
    ELSE BaseFilter(b.resolved, b.func)

\* builder.filter(event) of a NewMessage builder
NewMessageFilterStep(Events) ==
    \E ev \in Events :
        /\ mb.status = "ok"
        /\ mb.kind = "NewMessage"
        /\ LET pre == NewMessagePre(mb, ev)
           IN  /\ mbLast' = [valid |-> TRUE, ev |-> ev,
                             spam |-> IF pre # "pass" THEN "-"
                                      ELSE IF is_spam(spam_cache, ev.sender,
                                                      now).ret
                                           THEN "spam" ELSE "fresh",
                             base |-> BaseFilter(mb.resolved, mb.func),
                             res |-> NewMessageFilter(mb, ev, spam_cache, now)]
               /\ IF GuardReached(pre, mb) THEN SpamStep(ev.sender)
                  ELSE SpamUnchanged
        /\ UNCHANGED <<now, mb, mbArgs, cbVars, iqVars, cqVars, gmVars,
                       ibVars, fnVars>>

\* ------------------------------------------------------------------------
\* InlineQuery
\* ------------------------------------------------------------------------
IbRec(status, func, pattern) ==
    [status |-> status, resolved |-> FALSE, func |-> func,
     pattern |-> pattern]

NoIb == IbRec("none", "None", NoneVal)

\* InlineQuery.__init__
InlineQueryInit(pattern, func) ==
    IF pattern.t = "str"
    THEN IbRec("ok", func, [t |-> "Pattern", v |-> pattern.v])
    ELSE IF pattern.t \in {"Pattern", "NoneType"}
    THEN IbRec("ok", func, pattern)
    ELSE IbRec("TypeError", "None", NoneVal)

\* InlineQuery.filter for a query with the given text and user: the result,
\* and the spam cache it leaves
InlineQueryFilter_SpamGuarded(b, text, user, c, t) ==
    IF ~PatternPasses(b.pattern, text) THEN [res |-> "reject", cache |-> c]
    ELSE LET r == is_spam(c, user, t)
         IN  [res |-> IF r.ret THEN "reject"
                      ELSE BaseFilter(b.resolved, b.func),
              cache |-> r.cache]

InlineQueryFilter(b, text, user, c, t) ==
    IF ~PatternPasses(b.pattern, text) THEN [res |-> "reject", cache |-> c]
    ELSE [res |-> BaseFilter(b.resolved, b.func), cache |-> c]

NoIbLast ==
    [valid |-> FALSE, text |-> <<>>, user |-> 0, held |-> FALSE,
     match |-> FALSE, base |-> "-", res |-> "-", untouched |-> TRUE, n |-> 0]

IbInit ==
    /\ ib = NoIb
    /\ ibLast = NoIbLast

\* builder = InlineQuery(pattern, func)
IbConstruct(Patterns, FuncArgs) ==
    \E pattern \in Patterns, func \in FuncArgs :
        /\ ib.status = "none"
        /\ ib' = InlineQueryInit(pattern, func)
        /\ UNCHANGED <<ibLast, spamVars, cbVars, iqVars, cqVars, mbVars,
                       gmVars, fnVars>>

\* await builder.resolve(client)
IbResolve ==
    /\ ib.status = "ok"
    /\ ib' = [ib EXCEPT !.resolved = TRUE]
    /\ UNCHANGED <<ibLast, spamVars, cbVars, iqVars, cqVars, mbVars, gmVars,
                   fnVars>>

\* builder.filter(event) for an inline query with the given text and user;
\* history: whether the guard held the user, whether the pattern check
\* passed, what the base filter said, whether the guard was left as it was,
\* and the number of evaluations accepted in a row (capped)
IbFilter(Texts, Users) ==
    \E text \in Texts, user \in Users :
        /\ ib.status = "ok"
        /\ LET r == InlineQueryFilter(ib, text, user, spam_cache, now)
           IN  /\ ibLast' = [valid |-> TRUE, text |-> text, user |-> user,
                             held |-> CacheGet(spam_cache, user, now) = 1,
                             match |-> PatternPasses(ib.pattern, text),
                             base |-> BaseFilter(ib.resolved, ib.func),
                             res |-> r.res,
                             untouched |-> r.cache = spam_cache,
                             n |-> IF r.res # "accept" THEN 0
                                   ELSE IF ibLast.n < MaxAccepted
                                        THEN ibLast.n + 1 ELSE ibLast.n]
               /\ spam_cache' = r.cache
        /\ UNCHANGED <<now, spamLast, insAt, others, ib, cbVars, iqVars,
                       cqVars, mbVars, gmVars, fnVars>>


\* ------------------------------------------------------------------------
\* The inputs of the Command specifications
\* ------------------------------------------------------------------------
\* texts that start with "/", followed by letters and at most one "@" (a
\* command name or username holds none), and one text with two "@"
CmdTexts ==
    {<<"/">> \o t : t \in {u \in SeqsUpTo({"s", "@"}, MaxTokenLen) :
                               CountFrom(u, <<"@">>, 1) <= 1}}
    \cup {<<"/", "s", "@", "@">>}

\* a bot command at offset 0, of every length
CommandEntities == {Entity("botcmd", 0, n) : n \in 1..(MaxTokenLen + 1)}

\* no entities, or a first entity that is no bot command at offset 0
OtherEntities ==
    {NoEntities("missing"), NoEntities("empty"), Entity("other", 0, 2),
     Entity("botcmd", 1, 2), Entity("other", 1, 2)}

Usernames == {<<"s">>, NoUsername}

\* events that vary the text, the command entity (which lies within the
\* text) and the bot's username
CmdTextEvents ==
    UNION {{MsgEvent(text, ent, FALSE, "private", 1, me) :
               ent \in {e \in CommandEntities : e.length <= Len(text)},
               me \in Usernames} : text \in CmdTexts}

\* events without a command entity at offset 0
CmdEntityEvents ==
    {MsgEvent(<<"/">> \o t, ent, FALSE, "private", 1, <<"s">>) :
        t \in SeqsUpTo({"s"}, MaxTokenLen - 1), ent \in OtherEntities}

\* events that vary the direction and the chat of a "/s" command
CmdFlagEvents ==
    {MsgEvent(<<"/", "s">>, Entity("botcmd", 0, 2), out, chat, 1, <<"s">>) :
        out \in BOOLEAN, chat \in {"private", "group", "channel"}}

CmdEvents == CmdTextEvents \cup CmdEntityEvents \cup CmdFlagEvents

\* the command names and flags of the filter specification
CmdFilterCommands ==
    {CmdStr(<<"s">>), CmdList(<<<<"s", "s">>, <<"/", "s">>>>)}

CmdDefaultFlags == MbFlags("None", "None", FALSE, FALSE)

CmdFilterFlags ==
    {CmdDefaultFlags,
     MbFlags("True", "None", TRUE, FALSE),
     MbFlags("None", "True", FALSE, TRUE)}

NextCmd ==
    \/ CommandConstruct(CmdFilterCommands, {CmdDefaultFlags}, {"None"})
    \/ CommandConstruct({CmdStr(<<"s">>)}, CmdFilterFlags, {"None"})
    \/ MbResolve
    \/ CommandFilterStep(CmdEvents)

\* the arguments of the constructor specification
AllFlags ==
    {MbFlags(i, o, pr, pu) : i \in TriBool, o \in TriBool,
                              pr \in BOOLEAN, pu \in BOOLEAN}

CmdNames == SeqsUpTo({"s", "/"}, MaxCmdLen)

AllCommands ==
    {CmdStr(v) : v \in CmdNames}
    \cup {CmdList(<<v>>) : v \in CmdNames}
    \cup {CmdList(<<v, w>>) : v \in SeqsUpTo({"s", "/"}, 1),
                              w \in SeqsUpTo({"s", "/"}, 1)}
    \cup {CmdOther}

AllPatterns ==
    {NoneVal, StrVal(<<"s">>), [t |-> "Pattern", v |-> <<"s">>],
     [t |-> "int", v |-> <<>>]}

\* the events offered to the builders of the constructor specification
CtorEvents ==
    {MsgEvent(<<"/">> \o t, Entity("botcmd", 0, Len(t) + 1), FALSE,
              "private", 1, <<"s">>) : t \in SeqsUpTo({"s"}, 2)}

NextCtor ==
    \/ NewMessageConstruct(AllPatterns, AllFlags, {"None"})
    \/ CommandConstruct(AllCommands, AllFlags, {"None"})
    \/ MbResolve
    \/ CommandFilterStep(CtorEvents)

\* ------------------------------------------------------------------------
\* The inputs of the specification of the four builders
\* ------------------------------------------------------------------------
FltPatterns == {StrVal(<<"s">>)}

\* messages without entities: one the pattern "s" matches, one it does
\* not, one without text
FltMsgEvents ==
    {MsgEvent(text, NoEntities("missing"), FALSE, "private", 1, <<"s">>) :
        text \in {<<"s">>, <<"m">>, NoText}}

\* the commands "/s" and "/m"
FltCmdEvents ==
    {MsgEvent(<<"/", c>>, Entity("botcmd", 0, 2), FALSE, "private", 1,
              <<"s">>) : c \in {"s", "m"}}

\* data, and a split of a supported type and of another type
FltData == {BytesVal(<<"m">>)}
FltSplits ==
    {[tuple |-> FALSE, sep |-> x, n |-> NoCount] : x \in {NoneVal, IntVal}}
FltPayloads == {<<"m">>, <<" ">>}

\* the texts of inline queries
FltTexts == {<<"s">>, <<"m">>, NoText}

NextFlt ==
    \/ NewMessageConstruct(FltPatterns, {CmdDefaultFlags}, Funcs)
    \/ CommandConstruct({CmdStr(<<"s">>)}, {CmdDefaultFlags}, {"None"})
    \/ MbResolve
    \/ NewMessageFilterStep(FltMsgEvents)
    \/ CommandFilterStep(FltCmdEvents)
    \/ CqConstruct(FltData, FltSplits, CqFuncs)
    \/ CqResolve
    \/ CqFilter(FltPayloads, CqUsers)
    \/ IbConstruct(FltPatterns, {"None"})
    \/ IbResolve
    \/ IbFilter(FltTexts, CqUsers)

\* ------------------------------------------------------------------------
\* utils.pack_bot_file_id
\* ------------------------------------------------------------------------
\* A file argument is a record: wrap is the media container it came in
\* ("none" when it is given bare; a MessageMediaContact holds no file), t
\* is the type of the object itself (of the wrapped object for a
\* MessageMediaDocument or MessageMediaPhoto; None is "NoneType").
FileRec(wrap, t, attributes, sizes, dc_id, id, access_hash) ==
    [wrap |-> wrap, t |-> t, attributes |-> attributes, sizes |-> sizes,
     dc_id |-> dc_id, id |-> id, access_hash |-> access_hash]

\* a document attribute: its type, and its voice / round_message flag
Attr(kind, flag) == [kind |-> kind, flag |-> flag]
Attributes ==
    {Attr(k, f) : k \in {"Audio", "Video"}, f \in BOOLEAN}
    \cup {Attr(k, FALSE) : k \in {"Sticker", "Animated", "Filename"}}

\* the types of the entries of Photo.sizes
SizeKinds ==
    {"PhotoSize", "PhotoCachedSize", "PhotoSizeEmpty", "PhotoStrippedSize"}

\* dc_id (int), id and access_hash (long) as documents and photos carry them
DcIds == {2}
FileIds == {256}
AccessHashes == {-2, 5}

\* the file after the isinstance tests on the two media containers
Unwrap(file) ==
    IF file.wrap \in {"MessageMediaDocument", "MessageMediaPhoto"}
    THEN [file EXCEPT !.wrap = "none"]
    ELSE file

\* the type code one attribute gives, 0 when the loop continues past it
AttrCode(a) ==
    IF a.kind = "Audio" THEN (IF a.flag THEN 3 ELSE 9)
    ELSE IF a.kind = "Video" THEN (IF a.flag THEN 13 ELSE 4)
    ELSE IF a.kind = "Sticker" THEN 8
    ELSE IF a.kind = "Animated" THEN 10
    ELSE 0

\* file_type after the loop over file.attributes
FileType_NoBreak(attributes) ==
    LET hits == {i \in 1..Len(attributes) : AttrCode(attributes[i]) # 0}
    IN  IF hits = {} THEN 5
        ELSE AttrCode(attributes[CHOOSE i \in hits : \A j \in hits : j <= i])

RECURSIVE FileType(_)
FileType(attributes) ==
    IF attributes = <<>> THEN 5
    ELSE IF AttrCode(attributes[1]) # 0 THEN AttrCode(attributes[1])
    ELSE FileType(Tail(attributes))

\* next(x for x in reversed(sizes) if isinstance(x, (PhotoSize,
\* PhotoCachedSize))): the index of the entry found, 0 for None
LastThumb_SizeOnly(sizes) ==
    LET hits == {i \in 1..Len(sizes) : sizes[i] = "PhotoSize"}
    IN  IF hits = {} THEN 0 ELSE CHOOSE i \in hits : \A j \in hits : j <= i

LastThumb(sizes) ==
    LET hits == {i \in 1..Len(sizes) :
                    sizes[i] \in {"PhotoSize", "PhotoCachedSize"}}
    IN  IF hits = {} THEN 0 ELSE CHOOSE i \in hits : \A j \in hits : j <= i

RECURSIVE LittleEndian(_, _)
\* the w bytes of the integer x, least significant first (two's complement)
LittleEndian(x, w) ==
    IF w = 0 THEN <<>>
    ELSE <<x % 256>> \o LittleEndian(x \div 256, w - 1)

RECURSIVE struct_pack(_, _)
\* struct.pack("<...", values) for fields of the given widths in bytes
struct_pack(widths, values) ==
    IF widths = <<>> THEN <<>>
    ELSE LittleEndian(values[1], widths[1])
         \o struct_pack(Tail(widths), Tail(values))

RECURSIVE RleFrom(_, _, _)
\* _rle_encode: a run of zero bytes becomes a zero byte and the length of
\* the run, written when the next non-zero byte is met
RleFrom(b, i, count) ==
    IF i > Len(b) THEN <<>>
    ELSE IF b[i] = 0 THEN RleFrom(b, i + 1, count + 1)
    ELSE (IF count > 0 THEN <<0, count>> ELSE <<>>)
         \o <<b[i]>> \o RleFrom(b, i + 1, 0)

rle_encode(b) == RleFrom(b, 1, 0)

RECURSIVE encode_telegram_base64(_)
\* _encode_telegram_base64: URL-safe base64 without padding; a character is
\* written as its index 0..63 in the alphabet
encode_telegram_base64(b) ==
    IF Len(b) = 0 THEN <<>>
    ELSE IF Len(b) = 1 THEN <<b[1] \div 4, (b[1] % 4) * 16>>
    ELSE IF Len(b) = 2
    THEN <<b[1] \div 4, (b[1] % 4) * 16 + b[2] \div 16, (b[2] % 16) * 4>>
    ELSE <<b[1] \div 4, (b[1] % 4) * 16 + b[2] \div 16,
           (b[2] % 16) * 4 + b[3] \div 64, b[3] % 64>>
         \o encode_telegram_base64(SubSeq(b, 4, Len(b)))

\* what pack_bot_file_id returns: None, or the identifier string
PackNone == [t |-> "NoneType", v |-> <<>>]
PackStr(v) == [t |-> "str", v |-> v]

pack_bot_file_id(file) ==
    LET f == Unwrap(file)
    IN  IF f.wrap = "none" /\ f.t = "Document"
        THEN PackStr(encode_telegram_base64(rle_encode(
                 struct_pack(<<4, 4, 8, 8, 1>>,
                             <<FileType(f.attributes), f.dc_id, f.id,
                               f.access_hash, 2>>))))
        ELSE IF f.wrap = "none" /\ f.t = "Photo"
        THEN IF LastThumb(f.sizes) = 0 THEN PackNone
             ELSE PackStr(encode_telegram_base64(rle_encode(
                      struct_pack(<<4, 4, 8, 8, 8, 8, 4, 1>>,
                                  <<2, f.dc_id, f.id, f.access_hash,
                                    0, 0, 0, 2>>))))
        ELSE PackNone

\* the arguments of the specification of pack_bot_file_id: documents and
\* photos, bare and wrapped, empty documents and photos, None, a string, a
\* container without a file
PackDocuments ==
    {FileRec(w, "Document", a, <<>>, dc, id, h) :
        w \in {"none", "MessageMediaDocument"},
        a \in SeqsUpTo(Attributes, MaxAttrs),
        dc \in DcIds, id \in FileIds, h \in AccessHashes}
PackPhotos ==
    {FileRec(w, "Photo", <<>>, s, dc, id, h) :
        w \in {"none", "MessageMediaPhoto"},
        s \in SeqsUpTo(SizeKinds, MaxSizes),
        dc \in DcIds, id \in FileIds, h \in AccessHashes}
PackOthers ==
    {FileRec("none", t, <<>>, <<>>, 0, 0, 0) :
        t \in {"NoneType", "DocumentEmpty", "PhotoEmpty", "str"}}
    \cup {FileRec("MessageMediaDocument", t, <<>>, <<>>, 0, 0, 0) :
            t \in {"NoneType", "DocumentEmpty"}}
    \cup {FileRec("MessageMediaPhoto", t, <<>>, <<>>, 0, 0, 0) :
            t \in {"NoneType", "PhotoEmpty"}}
    \cup {FileRec("MessageMediaContact", "NoneType", <<>>, <<>>, 0, 0, 0)}
PackFiles == PackDocuments \cup PackPhotos \cup PackOthers

NoPack ==
    [valid |-> FALSE,
     file |-> FileRec("none", "NoneType", <<>>, <<>>, 0, 0, 0),
     ret |-> PackNone]

PackInit == packLast = NoPack

\* pack_bot_file_id(file); the function is pure, so one call from the
\* initial state shows all it does
PackCall(Files) ==
    \E file \in Files :
        /\ ~packLast.valid
        /\ packLast' = [valid |-> TRUE, file |-> file,
                        ret |-> pack_bot_file_id(file)]
        /\ UNCHANGED <<buildLast, spamVars, cbVars, iqVars, cqVars, mbVars,
                       gmVars, ibVars>>

NextPack == PackCall(PackFiles)

\* ------------------------------------------------------------------------
\* NewMessage.build
\* ------------------------------------------------------------------------
\* self_id, from_id or a peer id being None
NoId == 0

\* a message: its type, direction, sender (from_id), chat (peer_id) and text
Msg(kind, out, from_id, peer, id, text) ==
    [kind |-> kind, out |-> out, from_id |-> from_id, peer |-> peer,
     id |-> id, text |-> text]
Peer(kind, id) == [kind |-> kind, id |-> id]
NoMsg == Msg("none", FALSE, NoId, Peer("none", NoId), 0, <<>>)

\* an update: its type; message is what a full update carries; out,
\* user_id (from_id of an UpdateShortChatMessage), chat_id, id and text are
\* the fields of a short update
Update(t, message, out, user_id, chat_id, id, text) ==
    [t |-> t, message |-> message, out |-> out, user_id |-> user_id,
     chat_id |-> chat_id, id |-> id, text |-> text]

FullUpdates == {"UpdateNewMessage", "UpdateNewChannelMessage"}
ShortUpdates == {"UpdateShortMessage", "UpdateShortChatMessage"}
OtherUpdates == {"UpdateEditMessage", "UpdateBotCallbackQuery"}

\* what build returns: None, or an event holding the message
NoEvent == [event |-> FALSE, message |-> NoMsg]
EventOf(message) == [event |-> TRUE, message |-> message]

\* from_id of the message rebuilt from a short update
ShortSender_FromUpdate(update, self_id) == update.user_id

ShortSender(update, self_id) ==
    IF update.out THEN self_id ELSE update.user_id

\* NewMessage.build(update, others, self_id)
NewMessageBuild(update, self_id) ==
    IF update.t \in FullUpdates
    THEN IF update.message.kind # "Message" THEN NoEvent
         ELSE EventOf(update.message)
    ELSE IF update.t = "UpdateShortMessage"
    THEN EventOf(Msg("Message", update.out, ShortSender(update, self_id),
                     Peer("user", update.user_id), update.id, update.text))
    ELSE IF update.t = "UpdateShortChatMessage"
    THEN EventOf(Msg("Message", update.out, ShortSender(update, self_id),
                     Peer("chat", update.chat_id), update.id, update.text))
    ELSE NoEvent

\* the updates and the self_id values of the specification of build
BuildTexts == {<<>>, <<"s">>}
BuildMessages ==
    {Msg(k, o, f, p, 1, t) :
        k \in {"Message", "MessageService", "MessageEmpty"},
        o \in BOOLEAN, f \in {NoId} \cup Ids,
        p \in {Peer("user", 1), Peer("channel", 1)}, t \in BuildTexts}
BuildUpdates ==
    {Update(u, m, FALSE, NoId, NoId, 0, <<>>) :
        u \in FullUpdates, m \in BuildMessages}
    \cup {Update(u, NoMsg, o, f, c, 1, t) :
            u \in ShortUpdates, o \in BOOLEAN, f \in Ids, c \in 1..2,
            t \in BuildTexts}
    \cup {Update(u, NoMsg, FALSE, NoId, NoId, 0, <<>>) : u \in OtherUpdates}
SelfIds == {NoId} \cup Ids

NoBuild ==
    [valid |-> FALSE, update |-> Update("none", NoMsg, FALSE, NoId, NoId, 0, <<>>),
     self_id |-> NoId, ret |-> NoEvent]

BuildInit == buildLast = NoBuild

\* NewMessage.build(update, self_id=self_id); the method is pure, so one
\* call from the initial state shows all it does
BuildCall(Updates, SelfArgs) ==
    \E update \in Updates, self_id \in SelfArgs :
        /\ ~buildLast.valid
        /\ buildLast' = [valid |-> TRUE, update |-> update,
                         self_id |-> self_id,
                         ret |-> NewMessageBuild(update, self_id)]
        /\ UNCHANGED <<packLast, spamVars, cbVars, iqVars, cqVars, mbVars,
                       gmVars, ibVars>>

NextBuild == BuildCall(BuildUpdates, SelfIds)

Init ==
    /\ SpamInit /\ CbInit /\ IqInit /\ CqInit /\ MbInit /\ GmInit /\ IbInit
    /\ PackInit /\ BuildInit

\* ------------------------------------------------------------------------
\* The inputs of the specification of the order of the filter checks
\* ------------------------------------------------------------------------
\* no flag, private, public, incoming, outgoing
OrderFlags ==
    {CmdDefaultFlags,
     MbFlags("None", "None", TRUE, FALSE),
     MbFlags("None", "None", FALSE, TRUE),
     MbFlags("True", "None", FALSE, FALSE),
     MbFlags("None", "True", FALSE, FALSE)}

\* messages in and out, in a private chat and in a group, that the pattern
\* "s" matches or not
OrderMsgEvents ==
    {MsgEvent(text, NoEntities("missing"), out, chat, 1, <<"s">>) :
        text \in {<<"s">>, <<"m">>}, out \in BOOLEAN,
        chat \in {"private", "group"}}

\* the commands "/s" and "/m", in and out, in a private chat and in a group
OrderCmdEvents ==
    {MsgEvent(<<"/", c>>, Entity("botcmd", 0, 2), out, chat, 1, <<"s">>) :
        c \in {"s", "m"}, out \in BOOLEAN, chat \in {"private", "group"}}

NextOrder ==
    \/ NewMessageConstruct(FltPatterns, OrderFlags, {"None", "false"})
    \/ CommandConstruct({CmdStr(<<"s">>)}, OrderFlags, {"None", "false"})
    \/ MbResolve
    \/ NewMessageFilterStep(OrderMsgEvents)
    \/ CommandFilterStep(OrderCmdEvents)
    \/ CqConstruct(FltData, {[tuple |-> FALSE, sep |-> NoneVal, n |-> NoCount]},
                   CqFuncs)
    \/ CqResolve
    \/ CqFilter(FltPayloads, CqUsers)

\* ------------------------------------------------------------------------
\* The inputs of the specification of the shared spam guard
\* ------------------------------------------------------------------------
\* a message sent by each user
SharedMsgEvents ==
    {MsgEvent(<<"s">>, NoEntities("missing"), FALSE, "private", id, <<"s">>) :
        id \in Ids}

\* the clock advances by one tick, up to the time at which an entry
\* inserted at the start expires
WindowTick == now < TTL /\ Tick

\* a NewMessage builder and a CallbackQuery builder, both without
\* criteria, offered messages of every user and callbacks of one user
NextShared ==
    \/ NewMessageConstruct({NoneVal}, {CmdDefaultFlags}, {"None"})
    \/ MbResolve
    \/ NewMessageFilterStep(SharedMsgEvents)
    \/ CqConstruct({NoneVal}, {[tuple |-> FALSE, sep |-> NoneVal, n |-> NoCount]},
                   {"None"})
    \/ CqFilter({<<"m">>}, CqUsers)
    \/ WindowTick

NextSpam == IsSpamCall \/ Tick

SpecSpam == Init /\ [][NextSpam]_vars

SpecCb == Init /\ [][NextCb]_vars

SpecIq == Init /\ [][NextIq]_vars

SpecCq == Init /\ [][NextCq]_vars

SpecCmd == Init /\ [][NextCmd]_vars

SpecCtor == Init /\ [][NextCtor]_vars

SpecGm == Init /\ [][NextGm]_vars

SpecFlt == Init /\ [][NextFlt]_vars

SpecPack == Init /\ [][NextPack]_vars

SpecBuild == Init /\ [][NextBuild]_vars

SpecOrder == Init /\ [][NextOrder]_vars

SpecShared == Init /\ [][NextShared]_vars

\* ------------------------------------------------------------------------
\* C1
\* ------------------------------------------------------------------------
\* the last call was made within the TTL of the call that inserted its id
WithinWindow ==
    /\ spamLast.id # 0
    /\ spamLast.insAt >= 0
    /\ spamLast.at - spamLast.insAt < TTL

\* the last call was made once the window of the inserting call had elapsed
AfterWindow ==
    /\ spamLast.id # 0
    /\ spamLast.insAt >= 0
    /\ spamLast.at - spamLast.insAt >= TTL

\* C1 as stated: a call within the time-to-live of the call that inserted
\* the id returns true, and the first call after the window returns false
\* and re-inserts the id.
C1_Original ==
    /\ WithinWindow => spamLast.ret = TRUE
    /\ AfterWindow =>
         /\ spamLast.ret = FALSE
         /\ spamLast.held

\* C1 amended: a call within the time-to-live of the call that inserted the
\* id returns true provided fewer than the cache's capacity of other ids
\* were inserted in between (otherwise the id was evicted and the call
\* returns false); the first call after the window returns false and
\* re-inserts the id.
C1_SpamWindow ==
    /\ (WithinWindow /\ spamLast.others < MaxSize) => spamLast.ret = TRUE
    /\ (WithinWindow /\ spamLast.others >= MaxSize) => spamLast.ret = FALSE
    /\ AfterWindow =>
         /\ spamLast.ret = FALSE
         /\ spamLast.held

\* a repeat at a later tick, still within the window, answered true
C1_Witness ==
    /\ WithinWindow
    /\ spamLast.others < MaxSize
    /\ spamLast.ret = TRUE
    /\ spamLast.at > spamLast.insAt

\* ------------------------------------------------------------------------
\* C2
\* ------------------------------------------------------------------------
\* the answer() coroutines that have run their body
CbAnswersRun ==
    {i \in 1..Len(cbTasks) :
        cbTasks[i].kind = "answer" /\ cbTasks[i].pc # "scheduled"}

\* C2: on one CallbackQuery event, however explicit answer() calls and the
\* detached answer() tasks of respond/reply/edit/delete interleave, the
\* SetBotCallbackAnswerRequest is issued at most once, and every answer()
\* that runs after the first returns None without issuing a request.
C2_AnswerAtMostOnce ==
    /\ cbRequests <= 1
    /\ cbRequests = Cardinality({i \in CbAnswersRun : cbTasks[i].issued})
    /\ \A i \in CbAnswersRun :
         ~cbTasks[i].issued => cbTasks[i].pc = "done" /\ cbTasks[i].res = "None"
    /\ (CbAnswersRun # {}) => cbRequests = 1

\* an explicit answer() and a detached one have both run, one request made
C2_Witness ==
    /\ \E i \in CbAnswersRun : cbTasks[i].det /\ ~cbTasks[i].issued
    /\ \E i \in CbAnswersRun : ~cbTasks[i].det /\ cbTasks[i].issued
    /\ cbRequests = 1

\* ------------------------------------------------------------------------
\* C3
\* ------------------------------------------------------------------------
\* C3: on one InlineQuery event, answer() calls made one after the other
\* issue the SetInlineBotResultsRequest at most once; a call after a
\* completed one is a no-op.
C3_InlineAnswerAtMostOnce ==
    /\ iqRequests <= 1
    /\ (iqCalls >= 2 /\ iqPc = "done" /\ iqRequests >= 1) => iqRet = "None"

\* ------------------------------------------------------------------------
\* C4, C5, C6
\* ------------------------------------------------------------------------
\* sep occurs in p at index i
OccursAt(p, sep, i) ==
    /\ i + Len(sep) - 1 <= Len(p)
    /\ \A k \in 1..Len(sep) : p[i + k - 1] = sep[k]

\* d is the part of p before the first occurrence of sep, or all of p when
\* sep does not occur in p
PartBeforeSepIs(p, sep, d) ==
    /\ Len(d) <= Len(p)
    /\ \A k \in 1..Len(d) : p[k] = d[k]
    /\ \A i \in 1..Len(d) : ~OccursAt(p, sep, i)
    /\ Len(p) = Len(d) \/ OccursAt(p, sep, Len(d) + 1)

\* the builder has non-empty data and the filter has been evaluated
CqChecked == cq.status = "ok" /\ cqLast.valid /\ Truthy(cq.data)

\* C4: with non-empty data and no split, the data check of filter passes
\* exactly when the payload equals data byte for byte, whitespace bytes
\* included.
C4_ExactMatch ==
    (CqChecked /\ cq.split_char = NoneVal /\ cq.split_char_count = NoCount)
        => ((cqLast.check = "pass") <=> (cqLast.payload = cq.data.v))

\* C5: with non-empty data and a separator-only split, the data check
\* passes exactly when the part of the payload before the first occurrence
\* of the separator (the whole payload when it does not occur) equals data.
C5_PrefixSegment ==
    (CqChecked /\ Truthy(cq.split_char) /\ cq.split_char_count = NoCount)
        => ((cqLast.check = "pass")
              <=> PartBeforeSepIs(cqLast.payload, cq.split_char.v, cq.data.v))

\* a payload with a separator and a further segment passed the data check
C5_Witness ==
    /\ CqChecked /\ Truthy(cq.split_char) /\ cq.split_char_count = NoCount
    /\ cqLast.check = "pass"
    /\ Len(cqLast.payload) > Len(cq.data.v) + Len(cq.split_char.v)

\* C6: with split=(separator, n), n >= 0, a payload passes the data check
\* only if it contains exactly n occurrences of the separator and its part
\* before the first separator equals data.
C6_CountedSplit ==
    (CqChecked /\ Truthy(cq.split_char) /\ cq.split_char_count # NoCount
       /\ cqLast.check = "pass")
        => /\ BytesCount(cqLast.payload, cq.split_char).n = cq.split_char_count
           /\ PartBeforeSepIs(cqLast.payload, cq.split_char.v, cq.data.v)

\* ------------------------------------------------------------------------
\* C7, C8
\* ------------------------------------------------------------------------
\* a Command builder has evaluated filter
CmdChecked == mb.status = "ok" /\ mb.kind = "Command" /\ mbLast.valid

\* the first entity of the last event is a bot command at offset 0
LastIsCommand ==
    mbLast.ev.ent.kind = "botcmd" /\ mbLast.ev.ent.offset = 0

\* the text that entity covers, without its leading "/"
LastToken ==
    [i \in 1..(Min(mbLast.ev.ent.length, Len(mbLast.ev.text)) - 1) |->
        mbLast.ev.text[i + 1]]

\* the positions of "@" in the token
LastAts == {i \in 1..Len(LastToken) : LastToken[i] = "@"}

Configured(name) == \E i \in 1..Len(mb.command) : mb.command[i] = name

\* the visibility and direction of the last event suit the builder
LastVisible ==
    /\ mb.private => mbLast.ev.chat = "private"
    /\ mb.public => mbLast.ev.chat # "private"
    /\ mb.incoming = "True" => ~mbLast.ev.out
    /\ mb.outgoing = "True" => mbLast.ev.out

\* C7: for a bot command at offset 0 that names a configured command, a
\* token "name@username" is rejected whenever username differs from
\* client.me.username; a token without "@" is accepted whatever the
\* username is, given that the visibility, direction, spam-guard and base
\* checks pass.  (A username contains no "@": tokens with several "@" are
\* not covered.)
C7_UsernameSuffix ==
    (CmdChecked /\ LastIsCommand) =>
        /\ \A k \in LastAts :
             (LastAts = {k}
                /\ Configured(SubSeq(LastToken, 1, k - 1))
                /\ SubSeq(LastToken, k + 1, Len(LastToken)) # mbLast.ev.me)
               => mbLast.res = "reject"
        /\ (LastAts = {} /\ Configured(LastToken) /\ LastVisible
              /\ mbLast.spam # "spam" /\ mbLast.base = "accept")
             => mbLast.res = "accept"

\* "/s@s" was offered to a resolved builder by a bot with another username
\* and rejected
C7_Witness ==
    /\ CmdChecked /\ LastIsCommand /\ mbLast.base = "accept" /\ LastVisible
    /\ \E k \in LastAts :
         /\ LastAts = {k}
         /\ Configured(SubSeq(LastToken, 1, k - 1))
         /\ SubSeq(LastToken, k + 1, Len(LastToken)) # mbLast.ev.me
         /\ k < Len(LastToken)
    /\ mbLast.res = "reject"

\* C8: Command.filter rejects every message without entities, with a first
\* entity that is no bot command, or with a first entity at a non-zero
\* offset, whatever the text and the configured commands are.
C8_EntityRequired ==
    (CmdChecked /\ ~LastIsCommand) => mbLast.res = "reject"

\* a bot command entity at offset 1, over a configured name, was rejected
C8_Witness ==
    /\ CmdChecked /\ mbLast.base = "accept" /\ LastVisible
    /\ mbLast.ev.ent.kind = "botcmd" /\ mbLast.ev.ent.offset = 1
    /\ Len(mbLast.ev.text) >= 3
    /\ Configured(<<mbLast.ev.text[3]>>)
    /\ mbLast.res = "reject"

\* ------------------------------------------------------------------------
\* C9, C10
\* ------------------------------------------------------------------------
\* the name starts with "/" and goes on without one
SlashThenName(name) ==
    /\ Len(name) >= 1 /\ name[1] = "/"
    /\ Len(name) >= 2 => name[2] # "/"

\* the command argument with the leading "/" of every name taken off
Unslashed(command) ==
    [command EXCEPT !.s = IF command.t = "str" THEN Tail(@) ELSE @,
                    !.l = [i \in 1..Len(@) |-> Tail(@[i])]]

\* every name of the command argument is "/" followed by a name
AllSlashed(command) ==
    /\ command.t = "str" => SlashThenName(command.s)
    /\ command.t = "list" =>
         \A i \in 1..Len(command.l) : SlashThenName(command.l[i])

\* C9: for every name c without a leading slash, Command("/" + c) and
\* Command(c) hold the same command set and so give the same filter result
\* for every event and state of the spam guard.
C9_SlashEquivalence ==
    (mb.status = "ok" /\ mb.kind = "Command" /\ AllSlashed(mbArgs.command))
        => LET other == CommandNames(Unslashed(mbArgs.command))
           IN  /\ mb.command = other
               /\ \A ev \in CmdTextEvents :
                    CommandFilter(mb, ev, spam_cache, now)
                      = CommandFilter([mb EXCEPT !.command = other], ev,
                                      spam_cache, now)

\* C10: NewMessage or Command called with private=True and public=True
\* raises, whatever the other arguments are, and no builder has both set.
C10_PrivatePublic ==
    /\ (mbArgs.kind # "none" /\ mbArgs.private /\ mbArgs.public)
         => /\ mb.status \in {"ValueError", "TypeError"}
            /\ (mbArgs.kind = "NewMessage" \/ mbArgs.command.t \in {"str", "list"})
                 => mb.status = "ValueError"
    /\ mb.status = "ok" => ~(mb.private /\ mb.public)

\* Command was called with both flags and otherwise valid arguments
C10_Witness ==
    /\ mbArgs.kind = "Command" /\ mbArgs.private /\ mbArgs.public
    /\ mbArgs.command.t = "list"
    /\ mbArgs.incoming = "True" /\ mbArgs.outgoing = "None"
    /\ mb.status = "ValueError"

\* ------------------------------------------------------------------------
\* C11
\* ------------------------------------------------------------------------
\* the constructor got past the private/public and the command type checks
DirectionReached ==
    /\ mbArgs.kind # "none"
    /\ ~(mbArgs.private /\ mbArgs.public)
    /\ mbArgs.kind = "Command" => mbArgs.command.t \in {"str", "list"}

\* C11: NewMessage (and Command) called with incoming=False and
\* outgoing=False raises ValueError; when exactly one of the two is given
\* the builder holds the other as its negation; a constructed builder never
\* has incoming and outgoing both False, nor both True.
C11_DirectionNormalised ==
    /\ (DirectionReached /\ mbArgs.incoming = "False"
          /\ mbArgs.outgoing = "False")
         => mb.status = "ValueError"
    /\ (mb.status = "ok" /\ mbArgs.incoming # "None"
          /\ mbArgs.outgoing = "None")
         => /\ mb.incoming = mbArgs.incoming
            /\ mb.outgoing = (IF mbArgs.incoming = "True" THEN "False"
                              ELSE "True")
    /\ (mb.status = "ok" /\ mbArgs.outgoing # "None"
          /\ mbArgs.incoming = "None")
         => /\ mb.outgoing = mbArgs.outgoing
            /\ mb.incoming = (IF mbArgs.outgoing = "True" THEN "False"
                              ELSE "True")
    /\ mb.status = "ok"
         => /\ ~(mb.incoming = "False" /\ mb.outgoing = "False")
            /\ ~(mb.incoming = "True" /\ mb.outgoing = "True")

\* NewMessage(incoming=False, outgoing=False) with a valid pattern raised
C11_Witness ==
    /\ mbArgs.kind = "NewMessage" /\ DirectionReached
    /\ mbArgs.incoming = "False" /\ mbArgs.outgoing = "False"
    /\ mbArgs.pattern.t = "str"
    /\ mb.status = "ValueError"

\* ------------------------------------------------------------------------
\* C14, C15
\* ------------------------------------------------------------------------
\* C14: a call that returns true neither extends nor resets the expiry:
\* every entry of the guard expires one TTL after the call that inserted
\* its id, and a call made one TTL or more after the inserting call returns
\* false, whatever calls returned true in between.
C14_HitKeepsExpiry ==
    /\ \A i \in 1..Len(spam_cache) :
         spam_cache[i].exp = insAt[spam_cache[i].id] + TTL
    /\ AfterWindow => spamLast.ret = FALSE

\* a call returned true within the window, and the next call for the same
\* id, exactly one TTL after the inserting call, returned false
C14_Witness ==
    /\ AfterWindow
    /\ spamLast.prev
    /\ spamLast.at - spamLast.insAt = TTL
    /\ spamLast.ret = FALSE

\* C15: the guard never holds more ids than its capacity; a call with a new
\* id while the guard is full of live entries evicts an entry, returns
\* false and records the new id.
C15_CapacityBound ==
    /\ Len(spam_cache) <= MaxSize
    /\ \A i, j \in 1..Len(spam_cache) :
         spam_cache[i].id = spam_cache[j].id => i = j
    /\ (spamLast.id # 0 /\ ~spamLast.ret) => spamLast.held
    /\ (spamLast.id # 0 /\ spamLast.full) =>
         /\ Len(spam_cache) = MaxSize
         /\ spamLast.ret \/ spamLast.held

\* a new id arrived at a full guard, was answered false and recorded
C15_Witness ==
    /\ spamLast.id # 0 /\ spamLast.full /\ ~spamLast.ret
    /\ spamLast.held
    /\ Len(spam_cache) = MaxSize
    /\ \E i \in 1..Len(spam_cache) : spam_cache[i].id = spamLast.id

\* ------------------------------------------------------------------------
\* C16
\* ------------------------------------------------------------------------
\* the delete() calls made on the event
CbDeletes == {i \in 1..Len(cbTasks) : cbTasks[i].kind = "delete"}

\* C16: on an inline-origin callback every delete() call, the first and
\* each repeated one, ends with TypeError without issuing a delete_messages
\* request.
C16_InlineDeleteFails ==
    cbInline =>
        \A i \in CbDeletes :
            /\ cbTasks[i].pc = "done"
            /\ cbTasks[i].res = "TypeError"
            /\ ~cbTasks[i].issued

\* delete() was called twice on an inline-origin callback and raised twice
C16_Witness ==
    /\ cbInline
    /\ Cardinality(CbDeletes) >= 2
    /\ \A i \in CbDeletes : cbTasks[i].res = "TypeError" /\ ~cbTasks[i].issued

\* ------------------------------------------------------------------------
\* C17
\* ------------------------------------------------------------------------
\* the get_message() calls that have finished
GmDone == {i \in 1..Len(gmCalls) : gmCalls[i].pc = "done"}

\* the calls up to i were made one after the other
GmSequential(i) == \A k \in 1..i : gmCalls[k].inflight = 0

\* C17 as stated: a call never raises when the retrieval fails but returns
\* None; once a call has returned a message every later call returns that
\* same message without a get_messages request; a failed call leaves the
\* cache empty.
C17_Original ==
    \A i \in GmDone :
        /\ gmCalls[i].ret # "raise"
        /\ gmCalls[i].prior # None =>
             gmCalls[i].ret = gmCalls[i].prior /\ ~gmCalls[i].req
        /\ (gmCalls[i].out \in {"ValueError", "error", "notfound"}
              /\ gmCalls[i].before = None)
             => gmCalls[i].after = None

\* C17 amended: a call that finds a message cached returns it at once
\* without a request; otherwise a fetched message is stored and returned,
\* a fetch that finds no message or ends in ValueError returns None, and
\* any other exception propagates; a call that ends in an exception leaves
\* the cache as it was.  When the calls are made one after the other, every
\* call after one that returned a message returns that same message
\* without a request.
C17_GetMessage ==
    /\ gmRequests = Cardinality({i \in 1..Len(gmCalls) : gmCalls[i].req})
    /\ \A i \in 1..Len(gmCalls) :
         gmCalls[i].seen # None =>
            /\ gmCalls[i].pc = "done" /\ gmCalls[i].out = "cached"
            /\ gmCalls[i].ret = gmCalls[i].seen
            /\ ~gmCalls[i].req
    /\ \A i \in GmDone :
         /\ gmCalls[i].out \in Messages =>
              /\ gmCalls[i].ret = gmCalls[i].out
              /\ gmCalls[i].after = gmCalls[i].out
              /\ gmCalls[i].req
         /\ gmCalls[i].out = "notfound" =>
              gmCalls[i].ret = None /\ gmCalls[i].after = None
         /\ gmCalls[i].out = "ValueError" =>
              gmCalls[i].ret = None /\ gmCalls[i].after = gmCalls[i].before
         /\ gmCalls[i].out = "error" =>
              gmCalls[i].ret = "raise" /\ gmCalls[i].after = gmCalls[i].before
         /\ (GmSequential(i) /\ gmCalls[i].prior # None) =>
              gmCalls[i].ret = gmCalls[i].prior /\ ~gmCalls[i].req

\* three calls one after the other: the first ended in ValueError and
\* returned None, the second fetched a message, the third returned it
\* without a request
C17_Witness ==
    /\ Len(gmCalls) = 3 /\ GmDone = {1, 2, 3} /\ GmSequential(3)
    /\ gmCalls[1].out = "ValueError" /\ gmCalls[1].ret = None
    /\ gmCalls[2].out \in Messages /\ gmCalls[2].req
    /\ gmCalls[3].ret = gmCalls[2].ret /\ ~gmCalls[3].req
    /\ gmRequests = IF gmCalls[1].req THEN 2 ELSE 1

\* ------------------------------------------------------------------------
\* C18
\* ------------------------------------------------------------------------
\* the current answer() call has issued its request
IqRequested ==
    \/ iqPc = "request"
    \/ iqPc = "done" /\ iqRet \in {"ok", "error"}

\* C18: the request of answer() carries the results in the order of the
\* input list, whatever the order in which the pending entries completed,
\* and is issued only once every pending entry has completed.
C18_InputOrder ==
    IqRequested =>
        /\ Len(iqSent) = Len(iqFutures)
        /\ \A i \in 1..Len(iqFutures) :
             /\ iqFutures[i].st = "done"
             /\ iqSent[i] = iqFutures[i].v

\* two pending entries with different values completed in the reverse of
\* their order in the list, and the request carries them in list order
C18_Witness ==
    /\ IqRequested
    /\ Len(iqFutures) = 2
    /\ iqFutures[2].at = 1 /\ iqFutures[1].at = 2
    /\ iqFutures[1].v # iqFutures[2].v
    /\ iqSent = <<iqFutures[1].v, iqFutures[2].v>>

\* ------------------------------------------------------------------------
\* C19
\* ------------------------------------------------------------------------
\* what the user predicate says of an event; no predicate accepts
PredicateResult(func) == IF func = "false" THEN "reject" ELSE "accept"

\* the step is a filter evaluation of the NewMessage / Command builder, of
\* the CallbackQuery builder, of the InlineQuery builder
MbEvaluated == mbLast' # mbLast
CqEvaluated == cqLast' # cqLast
IbEvaluated == ibLast' # ibLast

\* C19: no builder of the four types accepts an event while it is
\* unresolved; a resolved builder whose own checks and spam guard let the
\* event through returns what the user predicate says, and accepts when
\* there is none; a resolved builder stays resolved, and resolving it again
\* changes nothing.
C19_RejectUntilResolved ==
    [][ /\ (MbEvaluated /\ mbLast'.res = "accept") => mb.resolved
        /\ (CqEvaluated /\ cqLast'.res = "accept") => cq.resolved
        /\ (IbEvaluated /\ ibLast'.res = "accept") => ib.resolved
        /\ (MbEvaluated /\ mbLast'.spam = "fresh" /\ mb.resolved)
             => mbLast'.res = PredicateResult(mb.func)
        /\ (MbEvaluated /\ mbLast'.spam = "fresh" /\ ~mb.resolved)
             => mbLast'.res = "reject"
        /\ (IbEvaluated /\ ibLast'.match /\ ib.resolved)
             => ibLast'.res = PredicateResult(ib.func)
        /\ mb.resolved => mb' = mb
        /\ cq.resolved => cq' = cq
        /\ ib.resolved => ib' = ib
      ]_vars

\* an event that the checks of an unresolved builder without predicate and
\* the spam guard let through was rejected
C19_Witness ==
    /\ mb.status = "ok" /\ ~mb.resolved /\ mb.func = "None"
    /\ mbLast.valid /\ mbLast.spam = "fresh"
    /\ mbLast.res = "reject"

\* ------------------------------------------------------------------------
\* C20
\* ------------------------------------------------------------------------
\* C20: InlineQuery.filter neither reads nor changes the spam guard: an
\* inline query that matches the pattern is accepted by a resolved
\* builder whether or not the guard holds its user, and the evaluation
\* leaves the guard as it was, so that no later evaluation of another
\* builder can tell that it took place.
C20_InlineNoSpamGuard ==
    (ib.status = "ok" /\ ibLast.valid) =>
        /\ ibLast.untouched
        /\ (ibLast.match /\ ibLast.base = "accept") => ibLast.res = "accept"
        /\ ~ibLast.match => ibLast.res = "reject"

\* a second inline query in a row of a user the guard holds was accepted
C20_Witness ==
    /\ ib.status = "ok" /\ ibLast.valid
    /\ ibLast.held
    /\ ibLast.res = "accept"
    /\ ibLast.n >= 2
    /\ spamLast.id = ibLast.user

\* ------------------------------------------------------------------------
\* C12, C13
\* ------------------------------------------------------------------------
\* the types the documentation gives for data and split
CqSupported(x) == x.t \in {"NoneType", "bytes", "str"}

\* C12: an invalid configuration raises at construction and is never
\* deferred: a constructed NewMessage or Command has no conflicting flags
\* and a pattern of a supported type, a constructed CallbackQuery has data
\* and split of supported types, and no filter evaluation of a constructed
\* builder fails because of what the builder was configured with.
C12_ConfigErrorsAtConstruction ==
    /\ mb.status = "ok" =>
         /\ ~(mbArgs.private /\ mbArgs.public)
         /\ ~(mbArgs.incoming = "False" /\ mbArgs.outgoing = "False")
         /\ mbArgs.pattern.t \in {"NoneType", "str", "Pattern"}
         /\ mbArgs.kind = "Command" => mbArgs.command.t \in {"str", "list"}
    /\ ib.status = "ok" => ib.pattern.t \in {"NoneType", "Pattern"}
    /\ cq.status = "ok" => CqSupported(cq.data) /\ CqSupported(cq.split_char)
    /\ (cq.status = "ok" /\ cqLast.valid) =>
         cqLast.res \notin {"TypeError", "ValueError"}

\* C13: filter of a constructed builder returns an accept or a reject and
\* never raises, whatever the event is.
C13_FilterNeverRaises ==
    /\ mbLast.valid => mbLast.res \in {"accept", "reject"}
    /\ cqLast.valid => cqLast.res \in {"accept", "reject"}
    /\ ibLast.valid => ibLast.res \in {"accept", "reject"}

\* ------------------------------------------------------------------------
\* C21
\* ------------------------------------------------------------------------
\* the argument is a document, or a photo with a thumbnail or cached size,
\* given bare or in its media container
PackApplicable(f) ==
    /\ f.wrap \in {"none", "MessageMediaDocument", "MessageMediaPhoto"}
    /\ \/ f.t = "Document"
       \/ /\ f.t = "Photo"
          /\ \E i \in 1..Len(f.sizes) :
                f.sizes[i] \in {"PhotoSize", "PhotoCachedSize"}

\* C21: pack_bot_file_id returns None for every argument that is neither a
\* document nor a photo nor a media container wrapping one, and for a photo
\* whose size list has no thumbnail or cached size; for every document and
\* for every photo with such a size it returns an identifier string.
C21_NoneOrIdentifier ==
    packLast.valid =>
        IF PackApplicable(packLast.file)
        THEN packLast.ret.t = "str" /\ packLast.ret.v # <<>>
        ELSE packLast.ret = PackNone

\* a wrapped photo whose only usable size is a cached size, followed by an
\* empty size, got an identifier
C21_Witness ==
    /\ packLast.valid
    /\ packLast.file.wrap = "MessageMediaPhoto"
    /\ packLast.file.t = "Photo"
    /\ packLast.file.sizes = <<"PhotoCachedSize", "PhotoSizeEmpty">>
    /\ packLast.ret.t = "str"

\* ------------------------------------------------------------------------
\* C26
\* ------------------------------------------------------------------------
\* the first byte of the record an identifier encodes: its type code
PackedCode(ret) == ret.v[1] * 4 + ret.v[2] \div 16

\* the attribute is audio, video, sticker or animated
Typed(a) == a.kind \in {"Audio", "Video", "Sticker", "Animated"}

\* C26: for a document the type code comes from the first attribute, in
\* list order, that is audio (3 if voice, else 9), video (13 if round
\* message, else 4), sticker (8) or animated (10); the attributes after it
\* do not change the code; the code is 5 when no attribute is of these
\* kinds.
C26_FirstAttributeWins ==
    (packLast.valid /\ packLast.file.t = "Document"
       /\ packLast.file.wrap \in {"none", "MessageMediaDocument"}) =>
        LET a == packLast.file.attributes
            code == PackedCode(packLast.ret)
        IN  /\ (\A i \in 1..Len(a) : ~Typed(a[i])) => code = 5
            /\ \A i \in 1..Len(a) :
                 (Typed(a[i]) /\ \A j \in 1..(i - 1) : ~Typed(a[j])) =>
                    /\ a[i].kind = "Audio" => code = (IF a[i].flag THEN 3 ELSE 9)
                    /\ a[i].kind = "Video" => code = (IF a[i].flag THEN 13 ELSE 4)
                    /\ a[i].kind = "Sticker" => code = 8
                    /\ a[i].kind = "Animated" => code = 10

\* a document whose attributes are a file name, a voice note and then a
\* sticker got the code of the voice note
C26_Witness ==
    /\ packLast.valid
    /\ packLast.file.t = "Document"
    /\ packLast.file.attributes =
         <<Attr("Filename", FALSE), Attr("Audio", TRUE), Attr("Sticker", FALSE)>>
    /\ PackedCode(packLast.ret) = 3

\* ------------------------------------------------------------------------
\* C28
\* ------------------------------------------------------------------------
\* C28: NewMessage.build returns an event for a full new-message update
\* carrying an ordinary message and for the two short forms, and None for a
\* service message and for every other update type; the message rebuilt
\* from a short form has self_id as sender when the update is outgoing and
\* the user / from id of the update otherwise.
C28_BuildShapes ==
    buildLast.valid =>
        LET u == buildLast.update
            r == buildLast.ret
        IN  /\ r.event <=> \/ u.t \in FullUpdates /\ u.message.kind = "Message"
                           \/ u.t \in ShortUpdates
            /\ (u.t \in FullUpdates /\ r.event) => r.message = u.message
            /\ (u.t \in ShortUpdates /\ u.out) =>
                  r.message.from_id = buildLast.self_id
            /\ (u.t \in ShortUpdates /\ ~u.out) =>
                  r.message.from_id = u.user_id

\* an outgoing short chat message of another user's id was rebuilt with
\* self_id as its sender
C28_Witness ==
    /\ buildLast.valid
    /\ buildLast.update.t = "UpdateShortChatMessage"
    /\ buildLast.update.out
    /\ buildLast.self_id # NoId
    /\ buildLast.self_id # buildLast.update.user_id
    /\ buildLast.ret.event
    /\ buildLast.ret.message.from_id = buildLast.self_id
    /\ buildLast.ret.message.peer = Peer("chat", buildLast.update.chat_id)

\* ------------------------------------------------------------------------
\* C27
\* ------------------------------------------------------------------------
\* the names given to the Command constructor, as a list
GivenNames ==
    IF mbArgs.command.t = "str" THEN <<mbArgs.command.s>>
    ELSE mbArgs.command.l

\* C27: Command construction strips only a leading slash: a name that does
\* not start with a slash is stored unchanged, and a name that starts with
\* one loses exactly that leading character.
C27_LeadingSlashOnly ==
    (mb.status = "ok" /\ mb.kind = "Command") =>
        /\ Len(mb.command) = Len(GivenNames)
        /\ \A i \in 1..Len(GivenNames) :
             LET name == GivenNames[i]
             IN  IF name # <<>> /\ name[1] = "/"
                 THEN mb.command[i] = Tail(name)
                 ELSE mb.command[i] = name

\* ------------------------------------------------------------------------
\* C24
\* ------------------------------------------------------------------------
\* the respond / reply / edit / delete coroutines
CbPrimaries ==
    {i \in 1..Len(cbTasks) : cbTasks[i].kind # "answer"}

\* C24: respond, reply, edit and delete each create answer() as a detached
\* task before they start their primary action and never await it: while
\* the primary action is pending it can end in each of its own outcomes
\* whatever the detached answer has done (not run, awaiting its request,
\* succeeded, failed); the result of the caller is the outcome of its own
\* action, an error only when its own request was issued or its own chat
\* lookup failed, never the failure of the detached answer.
C24_DetachedAnswer ==
    \A i \in CbPrimaries :
        /\ i > 1
        /\ cbTasks[i - 1].kind = "answer"
        /\ cbTasks[i - 1].det
        /\ cbTasks[i].pc = "primary" =>
             \A r \in CbPrimaryOutcomes(cbTasks[i].kind, cbInline) :
                 ENABLED CbPrimaryEnd(i, r)
        /\ cbTasks[i].pc = "done" =>
             /\ cbTasks[i].res \in
                  CbPrimaryOutcomes(cbTasks[i].kind, cbInline) \cup {"TypeError"}
             /\ cbTasks[i].res = "error" => cbTasks[i].issued
             /\ cbTasks[i].res = "TypeError" =>
                  cbTasks[i].kind = "delete" /\ cbInline

\* one caller returned successfully while its detached answer had not run
\* and the callback was unacknowledged; another returned successfully
\* although its detached answer failed
C24_Witness ==
    /\ cbRequests = 1
    /\ \E i \in CbPrimaries :
          /\ cbTasks[i].pc = "done" /\ cbTasks[i].res = "ok"
          /\ cbTasks[i - 1].pc = "scheduled"
    /\ \E i \in CbPrimaries :
          /\ cbTasks[i].pc = "done" /\ cbTasks[i].res = "ok"
          /\ cbTasks[i - 1].pc = "done" /\ cbTasks[i - 1].res = "error"

\* ------------------------------------------------------------------------
\* C25
\* ------------------------------------------------------------------------
\* the answer() coroutines that issued the request
CbIssuers ==
    {i \in 1..Len(cbTasks) : cbTasks[i].kind = "answer" /\ cbTasks[i].issued}

\* C25: answer() marks the event answered before its request is awaited:
\* while the request is pending and after it has failed the event is
\* marked answered, the failure is the result of the answer() that issued
\* the request, and every other answer() that has run returned None
\* without issuing a request, so that a failed answer is never retried.
C25_FailedAnswerNotRetried ==
    /\ CbIssuers # {} => cbAnswered
    /\ Cardinality(CbIssuers) <= 1
    /\ cbRequests = Cardinality(CbIssuers)
    /\ \A i \in CbAnswersRun :
         /\ cbTasks[i].res = "error" => i \in CbIssuers
         /\ i \notin CbIssuers =>
              cbTasks[i].pc = "done" /\ cbTasks[i].res = "None"

\* the request of the first answer() failed, and an answer() called after
\* the failure returned None without a request
C25_Witness ==
    /\ cbAnswered
    /\ cbRequests = 1
    /\ Len(cbTasks) >= 2
    /\ cbTasks[1].kind = "answer" /\ ~cbTasks[1].det
    /\ cbTasks[1].res = "error"
    /\ cbTasks[2].kind = "answer" /\ ~cbTasks[2].det
    /\ cbTasks[2].pc = "done" /\ ~cbTasks[2].issued

\* ------------------------------------------------------------------------
\* C22
\* ------------------------------------------------------------------------
\* what the builder's own checks (visibility, direction, content) say of
\* the event the step evaluates
MbOwnChecks ==
    IF mb.kind = "Command" THEN CommandPre(mb, mbLast'.ev)
    ELSE NewMessagePre(mb, mbLast'.ev)
CqOwnChecks == CqDataCheck(cq, cqLast'.payload)

\* the step leaves the spam guard as it was
GuardUntouched == spam_cache' = spam_cache /\ spamLast' = spamLast

\* the step asked the guard about id, and the guard holds id after it
GuardAsked(id) ==
    /\ spamLast'.id = id
    /\ spamLast'.at = now
    /\ CacheGet(spam_cache', id, now) = 1
    /\ spamLast'.ret <=> CacheGet(spam_cache, id, now) = 1

\* C22: in NewMessage.filter, Command.filter and CallbackQuery.filter the
\* spam guard comes after the visibility, direction and content checks and
\* before the base check: an evaluation that one of the earlier checks
\* rejects leaves the guard unchanged and the result is a rejection; an
\* evaluation that passes them asks the guard, which holds the
\* originator's id afterwards also when the base check then rejects
\* (unresolved builder or false predicate); and an evaluation the guard
\* calls spam is rejected whatever the base check would say.
C22_CheckOrder ==
    [][ /\ (MbEvaluated /\ MbOwnChecks # "pass") =>
              GuardUntouched /\ mbLast'.res = "reject"
        /\ (MbEvaluated /\ MbOwnChecks = "pass") =>
              /\ GuardAsked(mbLast'.ev.sender)
              /\ spamLast'.ret => mbLast'.res = "reject"
              /\ ~spamLast'.ret =>
                    mbLast'.res = BaseFilter(mb.resolved, mb.func)
        /\ (CqEvaluated /\ CqOwnChecks # "pass") => GuardUntouched
        /\ (CqEvaluated /\ CqOwnChecks = "pass") =>
              /\ GuardAsked(cqLast'.user)
              /\ spamLast'.ret => cqLast'.res = "reject"
              /\ ~spamLast'.ret =>
                    cqLast'.res = BaseFilter(cq.resolved, cq.func)
      ]_vars

\* a message that passed the checks of an unresolved builder was rejected
\* by the base check after the guard had taken its sender
C22_Witness ==
    /\ mb.status = "ok" /\ ~mb.resolved
    /\ mbLast.valid
    /\ mbLast.spam = "fresh"
    /\ mbLast.res = "reject"
    /\ spamLast.id = mbLast.ev.sender
    /\ ~spamLast.ret
    /\ CacheGet(spam_cache, mbLast.ev.sender, now) = 1

\* ------------------------------------------------------------------------
\* C23
\* ------------------------------------------------------------------------
\* the step is a filter evaluation, of either builder, that passes the spam
\* check for id
GuardPassedFor(id) ==
    /\ spamLast' # spamLast
    /\ spamLast'.id = id
    /\ ~spamLast'.ret

\* an evaluation accepts only if it passed the spam check
AcceptsPassGuard ==
    /\ (MbEvaluated /\ mbLast'.res = "accept") =>
          GuardPassedFor(mbLast'.ev.sender)
    /\ (CqEvaluated /\ cqLast'.res = "accept") =>
          GuardPassedFor(cqLast'.user)

\* C23 as stated: the guard is one cache keyed by id and shared by the
\* builders, and for any id at most one filter evaluation across the
\* builders passes the spam check within one time-to-live window (so at
\* most one of them accepts).
C23_Original ==
    [][ /\ AcceptsPassGuard
        /\ \A id \in Ids :
             GuardPassedFor(id) =>
                 insAt[id] = -1 \/ now - insAt[id] >= TTL
      ]_vars

\* C23 amended: an evaluation of any builder passes the spam check for an
\* id within the time-to-live of the evaluation (of any builder) that last
\* passed it for that id only when as many other ids as the cache holds
\* were inserted in between.
C23_SharedGuard ==
    [][ /\ AcceptsPassGuard
        /\ \A id \in Ids :
             GuardPassedFor(id) =>
                 \/ insAt[id] = -1
                 \/ now - insAt[id] >= TTL
                 \/ others[id] >= MaxSize
      ]_vars

\* the NewMessage builder accepted a message of a user, and a callback of
\* the same user offered to the CallbackQuery builder at a later tick
\* within the window was stopped by the guard
C23_Witness ==
    /\ mbLast.valid
    /\ mbLast.spam = "fresh"
    /\ mbLast.res = "accept"
    /\ cqLast.valid
    /\ cqLast.check = "pass"
    /\ cqLast.res = "reject"
    /\ cqLast.user = mbLast.ev.sender
    /\ spamLast.id = cqLast.user
    /\ spamLast.ret
    /\ spamLast.at > spamLast.insAt
    /\ spamLast.at - spamLast.insAt < TTL
    /\ spamLast.others < MaxSize

====
